---------------------------- MODULE Spec2Model ----------------------------
(***************************************************************************)
(* A model of the kube-batch scheduling engine: the NodeInfo accounting    *)
(* (pkg/scheduler/api/node_info.go), the Statement journal of tentative    *)
(* operations (framework/statement.go) and the SchedulerCache              *)
(* (cache/cache.go), with the gang plugin's job predicates.                *)
(*                                                                         *)
(* Resource, TaskInfo and JobInfo live in files of the repository that are *)
(* not part of the sources at hand (resource_info.go, job_info.go); they   *)
(* are modelled from the specification's data model and marked so in the   *)
(* model map.                                                              *)
(***************************************************************************)
EXTENDS Integers, Sequences, FiniteSets, TLC

(***************************************************************************)
(* Identities.                                                             *)
(***************************************************************************)
TaskIDs == {"t1", "t2", "t3"}
JobIDs == {"j1", "j2"}
NodeNames == {"n1", "n2"}

\* The empty NodeName of a task that is on no node.
NoNodeName == ""

\* A nil *v1.Node.
NilNode == [Name |-> "", Allocatable |-> [d \in {"MilliCPU", "Memory"} |-> 0]]

(***************************************************************************)
(* Resource: a vector over the resource dimensions.                        *)
(***************************************************************************)
Dims == {"MilliCPU", "Memory"}

EmptyResource == [d \in Dims |-> 0]

Res(c, m) == [d \in Dims |-> IF d = "MilliCPU" THEN c ELSE m]

Add(r, rr) == [d \in Dims |-> r[d] + rr[d]]

Sub(r, rr) == [d \in Dims |-> r[d] - rr[d]]

(***************************************************************************)
(* Resource in full: MilliCPU, Memory in bytes, and ScalarResources, a map *)
(* from the names of the scalars it has to their quantities.  The          *)
(* comparisons take two quantities that differ by less than the minimum    *)
(* quantity of the dimension as equal.                                     *)
(***************************************************************************)
minMilliCPU == 10
minMilliScalarResources == 10
minMemory == 10485760

\* A comparison that takes no difference as small enough.
Resource_LessEqual_Exact(r, rr) ==
  /\ r.MilliCPU <= rr.MilliCPU
  /\ r.Memory <= rr.Memory
  /\ \A rName \in DOMAIN r.ScalarResources :
       r.ScalarResources[rName] <=
         (IF rName \in DOMAIN rr.ScalarResources THEN rr.ScalarResources[rName] ELSE 0)

\* Resource.LessEqual: a dimension passes when r's quantity is below rr's or
\* within the minimum quantity of it; a scalar of r that is not above the
\* minimum quantity is passed over, and a scalar that rr lacks counts as 0.
Resource_LessEqual(r, rr) ==
  LET Abs(x) == IF x < 0 THEN 0 - x ELSE x
      Within(rQuant, rrQuant, min) == rQuant < rrQuant \/ Abs(rrQuant - rQuant) < min
  IN /\ Within(r.MilliCPU, rr.MilliCPU, minMilliCPU)
     /\ Within(r.Memory, rr.Memory, minMemory)
     /\ \A rName \in DOMAIN r.ScalarResources :
          \/ r.ScalarResources[rName] <= minMilliScalarResources
          \/ Within(r.ScalarResources[rName],
                    IF rName \in DOMAIN rr.ScalarResources
                      THEN rr.ScalarResources[rName] ELSE 0,
                    minMilliScalarResources)

\* The vectors of the scenarios count CPU in cores and memory in units of
\* 100 MiB, and have no scalars.
InFull(r) ==
  [MilliCPU |-> r["MilliCPU"] * 1000, Memory |-> r["Memory"] * 104857600,
   ScalarResources |-> <<>>]

\* Resource.LessEqual on the vectors of the scenarios: whole cores and whole
\* units of memory are never within the minimum quantities of each other
\* unless they are equal, so it is Resource_LessEqual(InFull(r), InFull(rr))
\* computed dimension by dimension.
LessEqual(r, rr) == \A d \in Dims : r[d] <= rr[d]

(***************************************************************************)
(* TaskInfo.                                                               *)
(***************************************************************************)
Pending == "Pending"
Allocated == "Allocated"
Pipelined == "Pipelined"
Binding == "Binding"
Bound == "Bound"
Running == "Running"
Releasing == "Releasing"
Succeeded == "Succeeded"
Failed == "Failed"
Unknown == "Unknown"

TaskStatus ==
  {Pending, Allocated, Pipelined, Binding, Bound, Running, Releasing,
   Succeeded, Failed, Unknown}

\* The queues of the scenario and the queue each job names.
QueueIDs == {"q1", "q2"}

QueueOf(j) == IF j = "j1" THEN "q1" ELSE "q2"

\* The job a task belongs to and the resources it requests.
JobOf(t) == IF t = "t3" THEN "j2" ELSE "j1"

Resreq(t) == IF t = "t3" THEN Res(2, 1) ELSE Res(1, 1)

NewTaskInfo(t, status, nodeName) ==
  [UID |-> t, Job |-> JobOf(t), Status |-> status, NodeName |-> nodeName,
   Resreq |-> Resreq(t)]

(***************************************************************************)
(* NodeInfo (node_info.go).  Every method is an operator from the receiver *)
(* (and the task argument, which AddTask writes to) to the values after    *)
(* the call and the error returned ("" for nil).                           *)
(***************************************************************************)
Ready == "Ready"
NotReady == "NotReady"

NodeObj(name, alloc) == [Name |-> name, Allocatable |-> alloc]

\* An empty Tasks map.
NoTasks == [k \in {} |-> NewTaskInfo("t1", Pending, NoNodeName)]

setNodeState(ni, node) ==
  IF node = NilNode
    THEN [ni EXCEPT !.State = [Phase |-> NotReady, Reason |-> "UnInitialized"]]
    ELSE IF ~LessEqual(ni.Used, node.Allocatable)
      THEN [ni EXCEPT !.State = [Phase |-> NotReady, Reason |-> "OutOfSync"]]
      ELSE [ni EXCEPT !.State = [Phase |-> Ready, Reason |-> ""]]

NewNodeInfo(node) ==
  LET ni == IF node = NilNode
              THEN [Name |-> "", Node |-> NilNode,
                    State |-> [Phase |-> NotReady, Reason |-> ""],
                    Releasing |-> EmptyResource, Pipelined |-> EmptyResource,
                    Idle |-> EmptyResource, Used |-> EmptyResource,
                    Allocatable |-> EmptyResource, Tasks |-> NoTasks]
              ELSE [Name |-> node.Name, Node |-> node,
                    State |-> [Phase |-> NotReady, Reason |-> ""],
                    Releasing |-> EmptyResource, Pipelined |-> EmptyResource,
                    Idle |-> node.Allocatable, Used |-> EmptyResource,
                    Allocatable |-> node.Allocatable, Tasks |-> NoTasks]
  IN setNodeState(ni, node)

NodeReady(ni) == ni.State.Phase = Ready

FutureIdle(ni) == Sub(Add(ni.Idle, ni.Releasing), ni.Pipelined)

\* The loop of SetNode over ni.Tasks: the resources of one task copy.
RECURSIVE AccountTasks(_, _)
AccountTasks(ni, keys) ==
  IF keys = {} THEN ni
  ELSE LET k == CHOOSE x \in keys : TRUE
           ti == ni.Tasks[k]
           nx == CASE ti.Status = Releasing ->
                        [ni EXCEPT !.Idle = Sub(@, ti.Resreq),
                                   !.Releasing = Add(@, ti.Resreq),
                                   !.Used = Add(@, ti.Resreq)]
                   [] ti.Status = Pipelined ->
                        [ni EXCEPT !.Pipelined = Add(@, ti.Resreq)]
                   [] OTHER ->
                        [ni EXCEPT !.Idle = Sub(@, ti.Resreq),
                                   !.Used = Add(@, ti.Resreq)]
       IN AccountTasks(nx, keys \ {k})

SetNode(ni, node) ==
  LET st == setNodeState(ni, node)
  IN IF ~NodeReady(st) THEN st
     ELSE AccountTasks(
            [st EXCEPT !.Name = node.Name, !.Node = node,
                       !.Allocatable = node.Allocatable,
                       !.Releasing = EmptyResource,
                       !.Pipelined = EmptyResource,
                       !.Idle = node.Allocatable,
                       !.Used = EmptyResource],
            DOMAIN st.Tasks)

\* allocateIdleResource: whether the request fits Idle (the subtraction is
\* done by AddTask's accounting below).
allocateIdleResource(ni, ti) == LessEqual(ti.Resreq, ni.Idle)

PutTask(tasks, key, ti) ==
  [k \in DOMAIN tasks \cup {key} |-> IF k = key THEN ti ELSE tasks[k]]

DropTask(tasks, key) == [k \in DOMAIN tasks \ {key} |-> tasks[k]]

\* AddTask's accounting with the default branch forgetting Used.
AddAccounting_NoUsed(ni, ti) ==
  CASE ti.Status = Releasing ->
         [ni EXCEPT !.Idle = Sub(@, ti.Resreq),
                    !.Releasing = Add(@, ti.Resreq),
                    !.Used = Add(@, ti.Resreq)]
    [] ti.Status = Pipelined ->
         [ni EXCEPT !.Pipelined = Add(@, ti.Resreq)]
    [] OTHER ->
         [ni EXCEPT !.Idle = Sub(@, ti.Resreq)]

\* The accounting AddTask does for a task copy of a given status.
AddAccounting(ni, ti) ==
  CASE ti.Status = Releasing ->
         [ni EXCEPT !.Idle = Sub(@, ti.Resreq),
                    !.Releasing = Add(@, ti.Resreq),
                    !.Used = Add(@, ti.Resreq)]
    [] ti.Status = Pipelined ->
         [ni EXCEPT !.Pipelined = Add(@, ti.Resreq)]
    [] OTHER ->
         [ni EXCEPT !.Idle = Sub(@, ti.Resreq),
                    !.Used = Add(@, ti.Resreq)]

\* AddTask writing task.NodeName before the request is fitted into Idle.
AddTask_NameFirst(ni, task) ==
  IF task.NodeName # NoNodeName /\ ni.Name # "" /\ task.NodeName # ni.Name
    THEN [ni |-> ni, task |-> task, err |-> "already on different node"]
  ELSE IF task.UID \in DOMAIN ni.Tasks
    THEN [ni |-> ni, task |-> task, err |-> "already on node"]
  ELSE IF ni.Node # NilNode /\ task.Status # Pipelined
          /\ ~allocateIdleResource(ni, task)
    THEN [ni |-> ni, task |-> [task EXCEPT !.NodeName = ni.Name],
          err |-> "Selected node NotReady"]
  ELSE LET acc == IF ni.Node # NilNode THEN AddAccounting(ni, task) ELSE ni
           ti == [task EXCEPT !.NodeName = ni.Name]
       IN [ni |-> [acc EXCEPT !.Tasks = PutTask(@, task.UID, ti)],
           task |-> [task EXCEPT !.NodeName = ni.Name],
           err |-> ""]

\* AddTask without the refusal of a task that names another node.
AddTask_AnyNode(ni, task) ==
  IF task.UID \in DOMAIN ni.Tasks
    THEN [ni |-> ni, task |-> task, err |-> "already on node"]
  ELSE IF ni.Node # NilNode /\ task.Status # Pipelined
          /\ ~allocateIdleResource(ni, task)
    THEN [ni |-> ni, task |-> task, err |-> "Selected node NotReady"]
  ELSE LET acc == IF ni.Node # NilNode THEN AddAccounting(ni, task) ELSE ni
           ti == [task EXCEPT !.NodeName = ni.Name]
       IN [ni |-> [acc EXCEPT !.Tasks = PutTask(@, task.UID, ti)],
           task |-> [task EXCEPT !.NodeName = ni.Name],
           err |-> ""]

AddTask(ni, task) ==
  IF task.NodeName # NoNodeName /\ ni.Name # "" /\ task.NodeName # ni.Name
    THEN [ni |-> ni, task |-> task, err |-> "already on different node"]
  ELSE IF task.UID \in DOMAIN ni.Tasks
    THEN [ni |-> ni, task |-> task, err |-> "already on node"]
  ELSE IF ni.Node # NilNode /\ task.Status # Pipelined
          /\ ~allocateIdleResource(ni, task)
    THEN [ni |-> ni, task |-> task, err |-> "Selected node NotReady"]
  ELSE LET acc == IF ni.Node # NilNode THEN AddAccounting(ni, task) ELSE ni
           ti == [task EXCEPT !.NodeName = ni.Name]
       IN [ni |-> [acc EXCEPT !.Tasks = PutTask(@, task.UID, ti)],
           task |-> [task EXCEPT !.NodeName = ni.Name],
           err |-> ""]

\* RemoveTask's accounting with the Releasing branch leaving Releasing alone.
RemoveAccounting_KeepReleasing(ni, task) ==
  CASE task.Status = Releasing ->
         [ni EXCEPT !.Idle = Add(@, task.Resreq),
                    !.Used = Sub(@, task.Resreq)]
    [] task.Status = Pipelined ->
         [ni EXCEPT !.Pipelined = Sub(@, task.Resreq)]
    [] OTHER ->
         [ni EXCEPT !.Idle = Add(@, task.Resreq),
                    !.Used = Sub(@, task.Resreq)]

\* The accounting RemoveTask does for the node's copy of the task.
RemoveAccounting(ni, task) ==
  CASE task.Status = Releasing ->
         [ni EXCEPT !.Releasing = Sub(@, task.Resreq),
                    !.Idle = Add(@, task.Resreq),
                    !.Used = Sub(@, task.Resreq)]
    [] task.Status = Pipelined ->
         [ni EXCEPT !.Pipelined = Sub(@, task.Resreq)]
    [] OTHER ->
         [ni EXCEPT !.Idle = Add(@, task.Resreq),
                    !.Used = Sub(@, task.Resreq)]

RemoveTask(ni, ti) ==
  IF ti.UID \notin DOMAIN ni.Tasks
    THEN [ni |-> ni, err |-> "failed to find task"]
    ELSE LET task == ni.Tasks[ti.UID]
             acc == IF ni.Node # NilNode THEN RemoveAccounting(ni, task) ELSE ni
         IN [ni |-> [acc EXCEPT !.Tasks = DropTask(@, ti.UID)], err |-> ""]

\* UpdateTask: RemoveTask, then AddTask; a failing AddTask is glog.Fatalf,
\* which ends the process with the task removed (fatal).
UpdateTask(ni, ti) ==
  LET rm == RemoveTask(ni, ti)
  IN IF rm.err # ""
       THEN [ni |-> ni, task |-> ti, err |-> rm.err, fatal |-> FALSE]
       ELSE LET ad == AddTask(rm.ni, ti)
            IN [ni |-> ad.ni, task |-> ad.task, err |-> "",
                fatal |-> ad.err # ""]

\* Clone: a NewNodeInfo of the same node to which every task is added again;
\* the error of an AddTask is dropped.
RECURSIVE CloneTasks(_, _, _)
CloneTasks(res, src, keys) ==
  IF keys = {} THEN res
  ELSE LET k == CHOOSE x \in keys : TRUE
       IN CloneTasks(AddTask(res, src.Tasks[k]).ni, src, keys \ {k})

Clone(ni) == CloneTasks(NewNodeInfo(ni.Node), ni, DOMAIN ni.Tasks)

(***************************************************************************)
(* JobInfo: the tasks of a job and the predicates derived from their       *)
(* statuses.  tasks maps task ids to TaskInfo objects.                     *)
(***************************************************************************)
MinAvailable(j) == IF j = "j1" THEN 2 ELSE 1

\* UpdateTaskStatus: the task takes the status and moves to its bucket of
\* the TaskStatusIndex, which is the set of the job's tasks of that status.
UpdateTaskStatus(tasks, t, status) == [tasks EXCEPT ![t].Status = status]

TaskStatusIndex(tasks, j, status) ==
  {t \in DOMAIN tasks : JobOf(t) = j /\ tasks[t].Status = status}

StatusCount(tasks, j, statuses) ==
  Cardinality({t \in DOMAIN tasks : JobOf(t) = j /\ tasks[t].Status \in statuses})

ReadyTaskNum(tasks, j) ==
  StatusCount(tasks, j, {Allocated, Binding, Bound, Running, Succeeded})

ValidTaskNum(tasks, j) ==
  StatusCount(tasks, j,
              {Pending, Allocated, Pipelined, Binding, Bound, Running, Succeeded})

JobReady(tasks, j) == ReadyTaskNum(tasks, j) >= MinAvailable(j)

JobPipelined(tasks, j) ==
  ReadyTaskNum(tasks, j) + Cardinality(TaskStatusIndex(tasks, j, Pipelined))
    >= MinAvailable(j)

(***************************************************************************)
(* The gang plugin's job functions (gang.go).                              *)
(***************************************************************************)
gangValidJobFn(tasks, j) == ValidTaskNum(tasks, j) >= MinAvailable(j)

gangJobReadyFn(tasks, j) == JobReady(tasks, j)

\* The condition the gang plugin publishes for a job that is not ready.
UnschedulableCondition(j, uid) ==
  [job |-> j, Type |-> "Unschedulable", Status |-> "True",
   Reason |-> "NotEnoughResources", TransitionID |-> uid]

RECURSIVE gangOnSessionClose_EveryJob(_, _, _)
RECURSIVE gangOnSessionClose(_, _, _)

\* An OnSessionClose that publishes the condition for every job.
gangOnSessionClose_EveryJob(tasks, jobs, uid) ==
  IF jobs = <<>> THEN <<>>
  ELSE <<UnschedulableCondition(Head(jobs), uid)>>
         \o gangOnSessionClose_EveryJob(tasks, Tail(jobs), uid)

\* gang: OnSessionClose over the session's jobs in the order jobs (the order
\* of a range over a map); the result is the conditions handed to
\* ssn.UpdateJobCondition, in the order of the calls.
gangOnSessionClose(tasks, jobs, uid) ==
  IF jobs = <<>> THEN <<>>
  ELSE (IF ~JobReady(tasks, Head(jobs))
          THEN <<UnschedulableCondition(Head(jobs), uid)>> ELSE <<>>)
         \o gangOnSessionClose(tasks, Tail(jobs), uid)

\* A JobPipelinedFn that lets every job pass.
gangJobPipelinedFn_Always(tasks, j) == TRUE

gangJobPipelinedFn(tasks, j) == JobPipelined(tasks, j)

(***************************************************************************)
(* The plugins' victim functions.  minAvailable, jobPriority and           *)
(* taskPriority are the MinAvailable and Priority fields of the session's  *)
(* jobs and the Priority field of the tasks; preemptees is the candidate   *)
(* list, whose tasks belong to jobs of the session.                        *)
(***************************************************************************)
\* A turn of the loop that takes a candidate whose job is at MinAvailable.
gangPreemptee_AtMin(tasks, minAvailable, jobOccupiedMap, preemptee) ==
  LET job == JobOf(preemptee)
      seeded == IF job \in DOMAIN jobOccupiedMap THEN jobOccupiedMap
                ELSE [j \in DOMAIN jobOccupiedMap \cup {job} |->
                        IF j = job THEN ReadyTaskNum(tasks, job)
                        ELSE jobOccupiedMap[j]]
  IN IF seeded[job] >= minAvailable[job]
       THEN [jobOccupiedMap |-> [seeded EXCEPT ![job] = @ - 1], victim |-> TRUE]
       ELSE [jobOccupiedMap |-> seeded, victim |-> FALSE]

\* gang: a turn of the loop of preemptableFn.  The job's entry of
\* jobOccupiedMap starts at its ReadyTaskNum; the candidate is a victim when
\* the entry is above MinAvailable, and the entry then goes down by one.
gangPreemptee(tasks, minAvailable, jobOccupiedMap, preemptee) ==
  LET job == JobOf(preemptee)
      seeded == IF job \in DOMAIN jobOccupiedMap THEN jobOccupiedMap
                ELSE [j \in DOMAIN jobOccupiedMap \cup {job} |->
                        IF j = job THEN ReadyTaskNum(tasks, job)
                        ELSE jobOccupiedMap[j]]
  IN IF seeded[job] > minAvailable[job]
       THEN [jobOccupiedMap |-> [seeded EXCEPT ![job] = @ - 1], victim |-> TRUE]
       ELSE [jobOccupiedMap |-> seeded, victim |-> FALSE]

RECURSIVE gangPreemptees(_, _, _, _, _)
gangPreemptees(tasks, minAvailable, preemptees, jobOccupiedMap, victims) ==
  IF preemptees = <<>> THEN victims
  ELSE LET r == gangPreemptee(tasks, minAvailable, jobOccupiedMap, Head(preemptees))
       IN gangPreemptees(tasks, minAvailable, Tail(preemptees), r.jobOccupiedMap,
                         IF r.victim THEN Append(victims, Head(preemptees))
                         ELSE victims)

\* gang: preemptableFn, registered as the plugin's PreemptableFn and
\* ReclaimableFn.  The preemptor is not looked at.
gangPreemptableFn(tasks, minAvailable, preemptor, preemptees) ==
  gangPreemptees(tasks, minAvailable, preemptees, <<>>, <<>>)

\* A turn of the loop that takes a candidate of equal priority as well.
priorityPreemptee_OrEqual(jobPriority, taskPriority, preemptor, preemptee) ==
  IF JobOf(preemptee) # JobOf(preemptor)
    THEN IF jobPriority[JobOf(preemptee)] > jobPriority[JobOf(preemptor)]
           THEN FALSE ELSE TRUE
    ELSE IF taskPriority[preemptee] > taskPriority[preemptor]
           THEN FALSE ELSE TRUE

\* priority: a turn of the loop of preemptableFn: whether the candidate is
\* appended to the victims.
priorityPreemptee(jobPriority, taskPriority, preemptor, preemptee) ==
  IF JobOf(preemptee) # JobOf(preemptor)
    THEN IF jobPriority[JobOf(preemptee)] >= jobPriority[JobOf(preemptor)]
           THEN FALSE ELSE TRUE
    ELSE IF taskPriority[preemptee] >= taskPriority[preemptor]
           THEN FALSE ELSE TRUE

RECURSIVE priorityPreemptees(_, _, _, _, _)
priorityPreemptees(jobPriority, taskPriority, preemptor, preemptees, victims) ==
  IF preemptees = <<>> THEN victims
  ELSE priorityPreemptees(jobPriority, taskPriority, preemptor, Tail(preemptees),
         IF priorityPreemptee(jobPriority, taskPriority, preemptor, Head(preemptees))
           THEN Append(victims, Head(preemptees))
           ELSE victims)

\* priority: preemptableFn.
priorityPreemptableFn(jobPriority, taskPriority, preemptor, preemptees) ==
  priorityPreemptees(jobPriority, taskPriority, preemptor, preemptees, <<>>)

(***************************************************************************)
(* The plugins' job order functions and the session's dispatch over the    *)
(* tiers.  A job is the record of what the functions read of a JobInfo:    *)
(* Priority, MinAvailable and ReadyTaskNum.                                *)
(***************************************************************************)
JobInfo_Ready(job) == job.ReadyTaskNum >= job.MinAvailable

\* priority: jobOrderFn.
priorityJobOrderFn(lv, rv) ==
  IF lv.Priority > rv.Priority THEN -1
  ELSE IF lv.Priority < rv.Priority THEN 1
  ELSE 0

\* A job order that puts the ready job first.
gangJobOrderFn_ReadyFirst(lv, rv) ==
  LET lReady == JobInfo_Ready(lv)
      rReady == JobInfo_Ready(rv)
  IN IF lReady /\ rReady THEN 0
     ELSE IF lReady THEN -1
     ELSE IF rReady THEN 1
     ELSE 0

\* gang: jobOrderFn.
gangJobOrderFn(lv, rv) ==
  LET lReady == JobInfo_Ready(lv)
      rReady == JobInfo_Ready(rv)
  IN IF lReady /\ rReady THEN 0
     ELSE IF lReady THEN 1
     ELSE IF rReady THEN -1
     ELSE 0

PluginJobOrderFn(name, l, r) ==
  IF name = "priority" THEN priorityJobOrderFn(l, r) ELSE gangJobOrderFn(l, r)

\* Session.JobOrderFn: the tiers in order, the plugins of a tier in order;
\* the first result that is not 0 is the answer, and 0 if there is none.
RECURSIVE TierJobOrderFn(_, _, _)
TierJobOrderFn(plugins, l, r) ==
  IF plugins = <<>> THEN 0
  ELSE LET j == PluginJobOrderFn(Head(plugins), l, r)
       IN IF j # 0 THEN j ELSE TierJobOrderFn(Tail(plugins), l, r)

RECURSIVE Session_JobOrderFn(_, _, _)
Session_JobOrderFn(tiers, l, r) ==
  IF tiers = <<>> THEN 0
  ELSE LET j == TierJobOrderFn(Head(tiers), l, r)
       IN IF j # 0 THEN j ELSE Session_JobOrderFn(Tail(tiers), l, r)

(***************************************************************************)
(* The scheduler configuration.  A configuration names the actions and     *)
(* lists the tiers; a tier lists plugin options; a plugin option is a name *)
(* and, per function kind, an enable flag that is "nil" when the           *)
(* configuration does not give it, and "true" or "false" when it does.     *)
(***************************************************************************)
EnableKinds ==
  {"JobOrder", "JobReady", "JobPipelined", "TaskOrder", "Preemptable",
   "Reclaimable", "QueueOrder", "Predicate", "NodeOrder"}

\* Defaults that leave the flags as the configuration gives them.
ApplyPluginConfDefaults_Keep(option) == option

\* ApplyPluginConfDefaults: a flag that is not given is set to true.
ApplyPluginConfDefaults(option) ==
  [option EXCEPT !.Enabled = [k \in EnableKinds |-> IF @[k] = "nil" THEN "true" ELSE @[k]]]

\* loadSchedulerConf, for a configuration whose actions are registered: the
\* defaults are applied to every plugin option of every tier, in place.
loadSchedulerConf(configuration) ==
  [actions |-> configuration.actions,
   tiers |-> [i \in 1..Len(configuration.tiers) |->
                [j \in 1..Len(configuration.tiers[i]) |->
                   ApplyPluginConfDefaults(configuration.tiers[i][j])]],
   err |-> ""]

(***************************************************************************)
(* The world the scheduler thread and the cache work on, as one record:   *)
(*   scNodes, scTasks    the cache's Nodes and the tasks of its Jobs       *)
(*   podGroup            the kind of PodGroup each cache job carries       *)
(*   ssnJobs, ssnTasks   the session's Jobs and their tasks                *)
(*   ssnNodes            the session's Nodes: per name, either an object   *)
(*                       of the session's own (obj) or a reference to the  *)
(*                       cache's object of that name (shared)              *)
(*   evAlloc, evDealloc  the calls of the AllocateFunc / DeallocateFunc    *)
(*                       event handlers, per task                          *)
(*   inflight            the detached effector goroutines                  *)
(*   errTasks            the resync queue                                  *)
(*   fatal               glog.Fatalf was reached                           *)
(***************************************************************************)
SsnNode(w, n) == IF w.ssnNodes[n].shared THEN w.scNodes[n] ELSE w.ssnNodes[n].obj

PutSsnNode(w, n, obj) ==
  IF w.ssnNodes[n].shared
    THEN [w EXCEPT !.scNodes[n] = obj]
    ELSE [w EXCEPT !.ssnNodes[n].obj = obj]

\* The node of the session that holds a copy of task t, if any.
HoldersOf(w, t) == {n \in DOMAIN w.ssnNodes : t \in DOMAIN SsnNode(w, n).Tasks}

\* The TaskInfo object an action hands to a Statement operation: the job's
\* task, or for a task whose job is not in the session the copy that a
\* session node holds.
HasSsnTask(w, t) == t \in DOMAIN w.ssnTasks \/ HoldersOf(w, t) # {}

SsnTask(w, t) ==
  IF t \in DOMAIN w.ssnTasks THEN w.ssnTasks[t]
  ELSE SsnNode(w, CHOOSE n \in HoldersOf(w, t) : TRUE).Tasks[t]

\* The task object after a call that wrote to it; a copy taken from a node
\* is the caller's own and is dropped.
PutSsnTask(w, t, task) ==
  IF t \in DOMAIN w.ssnTasks THEN [w EXCEPT !.ssnTasks[t] = task] ELSE w

CallAllocateFunc(w, t) == [w EXCEPT !.evAlloc[t] = @ + 1]

CallDeallocateFunc(w, t) == [w EXCEPT !.evDealloc[t] = @ + 1]

(***************************************************************************)
(* Statement (statement.go): the tentative operations.  Each returns the   *)
(* world after the call, the error, and whether it was journaled.          *)
(***************************************************************************)
\* Evict on a session whose tasks are the cache's own objects: the status is
\* written to the cache's task as well.
Statement_Evict_WriteThrough(w, t) ==
  LET w0 == IF t \in DOMAIN w.scTasks
              THEN [w EXCEPT !.scTasks = UpdateTaskStatus(@, t, Releasing)]
              ELSE w
      w1 == IF JobOf(t) \in w0.ssnJobs
              THEN [w0 EXCEPT !.ssnTasks = UpdateTaskStatus(@, t, Releasing)]
              ELSE w0
      reclaimee == SsnTask(w1, t)
      w2 == IF reclaimee.NodeName \in DOMAIN w1.ssnNodes
              THEN LET u == UpdateTask(SsnNode(w1, reclaimee.NodeName), reclaimee)
                   IN [PutSsnTask(PutSsnNode(w1, reclaimee.NodeName, u.ni), t, u.task)
                         EXCEPT !.fatal = u.fatal]
              ELSE w1
  IN IF w2.fatal THEN [w |-> w2, err |-> "", journal |-> FALSE]
     ELSE [w |-> CallDeallocateFunc(w2, t), err |-> "", journal |-> TRUE]

Statement_Evict(w, t) ==
  LET w1 == IF JobOf(t) \in w.ssnJobs
              THEN [w EXCEPT !.ssnTasks = UpdateTaskStatus(@, t, Releasing)]
              ELSE w
      reclaimee == SsnTask(w1, t)
      w2 == IF reclaimee.NodeName \in DOMAIN w1.ssnNodes
              THEN LET u == UpdateTask(SsnNode(w1, reclaimee.NodeName), reclaimee)
                   IN [PutSsnTask(PutSsnNode(w1, reclaimee.NodeName, u.ni), t, u.task)
                         EXCEPT !.fatal = u.fatal]
              ELSE w1
  IN IF w2.fatal THEN [w |-> w2, err |-> "", journal |-> FALSE]
     ELSE [w |-> CallDeallocateFunc(w2, t), err |-> "", journal |-> TRUE]

\* unevict as the lifecycle table has it: Releasing back to Pending.
Statement_unevict_ToPending(w, t) ==
  LET w1 == IF JobOf(t) \in w.ssnJobs
              THEN [w EXCEPT !.ssnTasks = UpdateTaskStatus(@, t, Pending)]
              ELSE w
      reclaimee == SsnTask(w1, t)
      w2 == IF reclaimee.NodeName \in DOMAIN w1.ssnNodes
              THEN LET u == UpdateTask(SsnNode(w1, reclaimee.NodeName), reclaimee)
                   IN [PutSsnTask(PutSsnNode(w1, reclaimee.NodeName, u.ni), t, u.task)
                         EXCEPT !.fatal = u.fatal]
              ELSE w1
  IN IF w2.fatal THEN w2 ELSE CallAllocateFunc(w2, t)

Statement_unevict(w, t) ==
  LET w1 == IF JobOf(t) \in w.ssnJobs
              THEN [w EXCEPT !.ssnTasks = UpdateTaskStatus(@, t, Running)]
              ELSE w
      reclaimee == SsnTask(w1, t)
      w2 == IF reclaimee.NodeName \in DOMAIN w1.ssnNodes
              THEN LET u == UpdateTask(SsnNode(w1, reclaimee.NodeName), reclaimee)
                   IN [PutSsnTask(PutSsnNode(w1, reclaimee.NodeName, u.ni), t, u.task)
                         EXCEPT !.fatal = u.fatal]
              ELSE w1
  IN IF w2.fatal THEN w2 ELSE CallAllocateFunc(w2, t)

Statement_Pipeline(w, t, hostname) ==
  IF JobOf(t) \notin w.ssnJobs
    THEN [w |-> w, err |-> "failed to find job", journal |-> FALSE]
  ELSE LET w1 == [w EXCEPT !.ssnTasks = UpdateTaskStatus(@, t, Pipelined)]
       IN IF hostname \notin DOMAIN w1.ssnNodes
            THEN [w |-> w1, err |-> "failed to find node", journal |-> FALSE]
          ELSE LET a == AddTask(SsnNode(w1, hostname), w1.ssnTasks[t])
               IN IF a.err # ""
                    THEN [w |-> w1, err |-> a.err, journal |-> FALSE]
                    ELSE [w |-> CallAllocateFunc(
                                  PutSsnTask(PutSsnNode(w1, hostname, a.ni), t, a.task), t),
                          err |-> "", journal |-> TRUE]

Statement_unpipeline(w, t) ==
  LET w1 == IF JobOf(t) \in w.ssnJobs
              THEN [w EXCEPT !.ssnTasks = UpdateTaskStatus(@, t, Pending)]
              ELSE w
      task == SsnTask(w1, t)
      w2 == IF task.NodeName \in DOMAIN w1.ssnNodes
              THEN PutSsnNode(w1, task.NodeName,
                              RemoveTask(SsnNode(w1, task.NodeName), task).ni)
              ELSE w1
  IN CallDeallocateFunc(w2, t)

\* volOK: whether the volume binder's AssumePodVolumes succeeds.
Statement_Allocate(w, t, hostname, volOK) ==
  IF ~volOK
    THEN [w |-> w, err |-> "AllocateVolumes", journal |-> FALSE]
  ELSE IF JobOf(t) \notin w.ssnJobs
    THEN [w |-> w, err |-> "failed to find job", journal |-> FALSE]
  ELSE LET w1 == [w EXCEPT !.ssnTasks = UpdateTaskStatus(@, t, Allocated)]
       IN IF hostname \notin DOMAIN w1.ssnNodes
            THEN [w |-> w1, err |-> "failed to find node", journal |-> FALSE]
          ELSE LET a == AddTask(SsnNode(w1, hostname), w1.ssnTasks[t])
               IN IF a.err # ""
                    THEN [w |-> w1, err |-> a.err, journal |-> FALSE]
                    ELSE [w |-> CallAllocateFunc(
                                  PutSsnTask(PutSsnNode(w1, hostname, a.ni), t, a.task), t),
                          err |-> "", journal |-> TRUE]

\* unallocate without the call of the handlers' DeallocateFunc.
Statement_unallocate_Silent(w, t) ==
  LET w1 == IF JobOf(t) \in w.ssnJobs
              THEN [w EXCEPT !.ssnTasks = UpdateTaskStatus(@, t, Pending)]
              ELSE w
      task == SsnTask(w1, t)
      w2 == IF task.NodeName \in DOMAIN w1.ssnNodes
              THEN PutSsnNode(w1, task.NodeName,
                              RemoveTask(SsnNode(w1, task.NodeName), task).ni)
              ELSE w1
  IN w2

Statement_unallocate(w, t) ==
  LET w1 == IF JobOf(t) \in w.ssnJobs
              THEN [w EXCEPT !.ssnTasks = UpdateTaskStatus(@, t, Pending)]
              ELSE w
      task == SsnTask(w1, t)
      w2 == IF task.NodeName \in DOMAIN w1.ssnNodes
              THEN PutSsnNode(w1, task.NodeName,
                              RemoveTask(SsnNode(w1, task.NodeName), task).ni)
              ELSE w1
  IN CallDeallocateFunc(w2, t)

\* The inverse of one journaled operation.
Undo(w, op) ==
  CASE op.name = "evict" -> Statement_unevict(w, op.task)
    [] op.name = "pipeline" -> Statement_unpipeline(w, op.task)
    [] op.name = "allocate" -> Statement_unallocate(w, op.task)

\* Discard: the inverses, from the last journaled operation to the first.
RECURSIVE DiscardFrom(_, _, _)
DiscardFrom(w, operations, i) ==
  IF i = 0 \/ w.fatal THEN w
  ELSE DiscardFrom(Undo(w, operations[i]), operations, i - 1)

Statement_Discard(w, operations) == DiscardFrom(w, operations, Len(operations))

(***************************************************************************)
(* SchedulerCache (cache.go).  Bind and Evict run under the cache mutex;   *)
(* here each is one step.  A launched goroutine is an element of inflight. *)
(***************************************************************************)
\* The PodGroup a cache job carries: none at all (and no PDB), the shadow
\* PodGroup the cache makes up for plain pods, or one of a schema version.
PodGroupKinds == {"nil", "shadow", "v1alpha1", "v1alpha2", "invalid"}

shadowPodGroup(pg) == pg \in {"nil", "shadow"}

Goroutine(kind, t, hostname) ==
  [kind |-> kind, task |-> t, host |-> hostname, st |-> "running"]

\* findJobAndTask: the cache's own object of the task.
findJobAndTask(w, t) == t \in DOMAIN w.scTasks

\* JobTerminated: the job has no scheduling spec and no task left.
JobTerminated(w, j) ==
  /\ w.podGroup[j] = "nil"
  /\ \A t \in DOMAIN w.scTasks : JobOf(t) # j

\* deleteJob: the job is put on the rate-limited queue of deleted jobs.
deleteJob(queue, j) == queue \cup {j}

\* A cleanup that never retries.
processCleanupJob_NoRetry(w, queue, j) ==
  IF j \in w.staleJobs \/ j \notin DOMAIN w.podGroup \/ JobTerminated(w, j)
    THEN [Jobs |-> [x \in DOMAIN w.podGroup \ {j} |-> w.podGroup[x]],
          deletedJobs |-> queue]
    ELSE [Jobs |-> w.podGroup, deletedJobs |-> queue]

\* processCleanupJob, under the lock: JobTerminated is asked of the job
\* object taken from the queue, and if it is terminated the entry of its UID
\* is deleted from sc.Jobs; any other job is put back on the queue. The job
\* object of a job that was deleted already is still terminated, also when
\* sc.Jobs has a new JobInfo under its UID.
processCleanupJob(w, queue, j) ==
  IF j \in w.staleJobs \/ j \notin DOMAIN w.podGroup \/ JobTerminated(w, j)
    THEN [Jobs |-> [x \in DOMAIN w.podGroup \ {j} |-> w.podGroup[x]],
          deletedJobs |-> queue]
    ELSE [Jobs |-> w.podGroup, deletedJobs |-> deleteJob(queue, j)]

\* resyncTask: the task is put on the rate-limited resync queue.
resyncTask_Dropped(queue, t) == queue

resyncTask(queue, t) == queue \cup {t}

\* convOK: whether the conversion of the job's PodGroup to its schema
\* version succeeds.
SchedulerCache_Evict(w, t, convOK) ==
  IF ~findJobAndTask(w, t)
    THEN [w |-> w, err |-> "failed to find task"]
  ELSE LET task == w.scTasks[t] IN
    IF task.NodeName \notin DOMAIN w.scNodes
      THEN [w |-> w, err |-> "host does not exist"]
    ELSE LET originalStatus == task.Status
             w1 == [w EXCEPT !.scTasks = UpdateTaskStatus(@, t, Releasing)]
             u == UpdateTask(w1.scNodes[task.NodeName], w1.scTasks[t])
         IN IF u.err # ""
              THEN [w |-> [w1 EXCEPT !.scTasks = UpdateTaskStatus(@, t, originalStatus)],
                    err |-> u.err]
            ELSE IF u.fatal
              THEN [w |-> [w1 EXCEPT !.scNodes[task.NodeName] = u.ni, !.fatal = TRUE],
                    err |-> ""]
            ELSE LET w2 == [w1 EXCEPT !.scNodes[task.NodeName] = u.ni,
                                      !.scTasks[t] = u.task,
                                      !.inflight = Append(@, Goroutine("evict", t, task.NodeName))]
                     pg == w.podGroup[JobOf(t)]
                 IN IF shadowPodGroup(pg) THEN [w |-> w2, err |-> ""]
                    ELSE IF pg \in {"v1alpha1", "v1alpha2"}
                      THEN [w |-> w2, err |-> IF convOK THEN "" ELSE "conversion failed"]
                    ELSE [w |-> w2, err |-> "Invalid PodGroup Version"]

\* Bind without the revert of the status after a failed AddTask.
SchedulerCache_Bind_NoRevert(w, t, hostname) ==
  IF ~findJobAndTask(w, t)
    THEN [w |-> w, err |-> "failed to find task"]
  ELSE IF hostname \notin DOMAIN w.scNodes
    THEN [w |-> w, err |-> "host does not exist"]
  ELSE LET w1 == [w EXCEPT !.scTasks = UpdateTaskStatus(@, t, Binding)]
           a == AddTask(w1.scNodes[hostname], w1.scTasks[t])
       IN IF a.err # ""
            THEN [w |-> w1, err |-> a.err]
            ELSE [w |-> [w1 EXCEPT !.scNodes[hostname] = a.ni,
                                   !.scTasks[t] = a.task,
                                   !.inflight = Append(@, Goroutine("bind", t, hostname))],
                  err |-> ""]

SchedulerCache_Bind(w, t, hostname) ==
  IF ~findJobAndTask(w, t)
    THEN [w |-> w, err |-> "failed to find task"]
  ELSE IF hostname \notin DOMAIN w.scNodes
    THEN [w |-> w, err |-> "host does not exist"]
  ELSE LET task == w.scTasks[t]
           originalStatus == task.Status
           w1 == [w EXCEPT !.scTasks = UpdateTaskStatus(@, t, Binding)]
           a == AddTask(w1.scNodes[hostname], w1.scTasks[t])
       IN IF a.err # ""
            THEN [w |-> [w1 EXCEPT !.scTasks = UpdateTaskStatus(@, t, originalStatus)],
                  err |-> a.err]
            ELSE [w |-> [w1 EXCEPT !.scNodes[hostname] = a.ni,
                                   !.scTasks[t] = a.task,
                                   !.inflight = Append(@, Goroutine("bind", t, hostname))],
                  err |-> ""]

\* A snapshot that keeps the cache's own node object instead of a clone.
SnapshotNode_Alias(value) == [shared |-> TRUE, obj |-> value]

\* Snapshot: what the snapshot holds for one Ready cache node.
SnapshotNode(value) == [shared |-> FALSE, obj |-> Clone(value)]

\* A job priority that ignores the job's priority class.
SnapshotPriority_DefaultOnly(w, j) ==
  IF w.podGroup[j] # "nil" THEN w.prio.defaultPriority ELSE w.prio.Priority[j]

\* Snapshot: the Priority of a job. With a PodGroup it is the cache's
\* defaultPriority, or the Value of the priority class the PodGroup names
\* when the cache has that class; without one it stays what it was.
SnapshotPriority(w, j) ==
  IF w.podGroup[j] # "nil"
    THEN LET priName == w.prio.PriorityClassName[j]
         IN IF priName \in DOMAIN w.prio.PriorityClasses
              THEN w.prio.PriorityClasses[priName]
              ELSE w.prio.defaultPriority
    ELSE w.prio.Priority[j]

\* Snapshot that does not skip the nodes that are not Ready.
Snapshot_AllNodes(w) ==
  LET queues == w.scQueues
      skipped == {j \in DOMAIN w.podGroup :
                    \/ (w.podGroup[j] = "nil" /\ ~w.pdb[j])
                    \/ QueueOf(j) \notin queues}
      jobs == DOMAIN w.podGroup \ skipped
  IN [Nodes |-> [n \in DOMAIN w.scNodes |-> SnapshotNode(w.scNodes[n])],
      Queues |-> queues,
      Jobs |-> jobs,
      Tasks |-> [t \in {x \in DOMAIN w.scTasks : JobOf(x) \in jobs} |-> w.scTasks[t]],
      Priority |-> [j \in jobs |-> SnapshotPriority(w, j)]]

\* Snapshot: a clone of every node but those that are not Ready, a clone of
\* every queue, and a clone of every job but those with no scheduling spec
\* (neither PodGroup nor PDB) and those whose queue is not in the snapshot.
Snapshot(w) ==
  LET ready == DOMAIN w.scNodes \ {n \in DOMAIN w.scNodes : ~NodeReady(w.scNodes[n])}
      queues == w.scQueues
      skipped == {j \in DOMAIN w.podGroup :
                    \/ (w.podGroup[j] = "nil" /\ ~w.pdb[j])
                    \/ QueueOf(j) \notin queues}
      jobs == DOMAIN w.podGroup \ skipped
  IN [Nodes |-> [n \in ready |-> SnapshotNode(w.scNodes[n])],
      Queues |-> queues,
      Jobs |-> jobs,
      Tasks |-> [t \in {x \in DOMAIN w.scTasks : JobOf(x) \in jobs} |-> w.scTasks[t]],
      Priority |-> [j \in jobs |-> SnapshotPriority(w, j)]]

\* Snapshot: the Priority of the cache's jobs when the call returns.
SnapshotJobPriority(w) ==
  [j \in JobIDs |-> IF j \in Snapshot(w).Jobs THEN Snapshot(w).Priority[j]
                                             ELSE w.prio.Priority[j]]

\* The pod behind a cache task whose Binder.Bind or Evictor.Evict call
\* failed: a Binding task's pod is still pending on no node, a Releasing
\* task's pod still runs on its node.
PodOf(task) ==
  CASE task.Status = Binding -> NewTaskInfo(task.UID, Pending, NoNodeName)
    [] task.Status = Releasing -> NewTaskInfo(task.UID, Running, task.NodeName)
    [] OTHER -> task

\* syncTask: the pod is read again (apiOK: the read succeeds) and the cache's
\* task is replaced by one made from the pod: the old task is deleted from
\* its node, the new one is added to the node of the pod.
syncTask(w, t, apiOK) ==
  IF ~apiOK THEN [w |-> w, err |-> "failed to get pod"]
  ELSE IF ~findJobAndTask(w, t) THEN [w |-> w, err |-> "failed to find task"]
  ELSE LET old == w.scTasks[t]
           new == PodOf(old)
           w1 == IF old.NodeName \in DOMAIN w.scNodes
                   THEN [w EXCEPT !.scNodes[old.NodeName] = RemoveTask(@, old).ni]
                   ELSE w
       IN IF new.NodeName \notin DOMAIN w1.scNodes
            THEN [w |-> [w1 EXCEPT !.scTasks[t] = new], err |-> ""]
          ELSE LET a == AddTask(w1.scNodes[new.NodeName], new)
               IN IF a.err # ""
                    THEN [w |-> [w1 EXCEPT !.scTasks =
                                   [x \in DOMAIN @ \ {t} |-> @[x]]],
                          err |-> a.err]
                    ELSE [w |-> [w1 EXCEPT !.scNodes[new.NodeName] = a.ni,
                                           !.scTasks[t] = a.task],
                          err |-> ""]

\* A resync worker that does not retry.
processResyncTask_NoRetry(w, t, apiOK) == syncTask(w, t, apiOK)

\* processResyncTask, after the Get: syncTask, and resyncTask if it failed.
processResyncTask(w, t, apiOK) ==
  LET r == syncTask(w, t, apiOK)
  IN IF r.err # ""
       THEN [w |-> [r.w EXCEPT !.errTasks = resyncTask(@, t)], err |-> r.err]
       ELSE r

(***************************************************************************)
(* Statement.Commit: the committed form of each journaled operation.       *)
(***************************************************************************)
\* allocate going on to Bind after BindVolumes failed.
Statement_allocate_BindAnyway(w, t, bindVolOK) ==
  LET b == SchedulerCache_Bind(w, t, SsnTask(w, t).NodeName)
      calls == <<"BindVolumes", "Bind">>
  IN IF b.err # ""
       THEN [w |-> b.w, err |-> b.err, call |-> "Bind", cerr |-> b.err,
             calls |-> calls]
     ELSE IF JobOf(t) \in b.w.ssnJobs
       THEN [w |-> [b.w EXCEPT !.ssnTasks = UpdateTaskStatus(@, t, Binding)],
             err |-> IF bindVolOK THEN "" ELSE "BindVolumes",
             call |-> "Bind", cerr |-> "", calls |-> calls]
       ELSE [w |-> b.w, err |-> "failed to find job", call |-> "Bind",
             cerr |-> "", calls |-> calls]

\* bindVolOK: whether the volume binder's BindPodVolumes succeeds.
Statement_allocate(w, t, bindVolOK) ==
  IF ~bindVolOK
    THEN [w |-> w, err |-> "BindVolumes", call |-> "", cerr |-> "",
          calls |-> <<"BindVolumes">>]
  ELSE LET b == SchedulerCache_Bind(w, t, SsnTask(w, t).NodeName)
           calls == <<"BindVolumes", "Bind">>
       IN IF b.err # ""
            THEN [w |-> b.w, err |-> b.err, call |-> "Bind", cerr |-> b.err,
                  calls |-> calls]
          ELSE IF JobOf(t) \in b.w.ssnJobs
            THEN [w |-> [b.w EXCEPT !.ssnTasks = UpdateTaskStatus(@, t, Binding)],
                  err |-> "", call |-> "Bind", cerr |-> "", calls |-> calls]
            ELSE [w |-> b.w, err |-> "failed to find job", call |-> "Bind",
                  cerr |-> "", calls |-> calls]

Statement_evict(w, t, convOK) ==
  LET e == SchedulerCache_Evict(w, t, convOK)
  IN IF e.err # "" /\ ~e.w.fatal
       THEN [w |-> Statement_unevict(e.w, t), err |-> e.err,
             call |-> "Evict", cerr |-> e.err, calls |-> <<"Evict">>]
       ELSE [w |-> e.w, err |-> e.err, call |-> "Evict", cerr |-> e.err,
             calls |-> <<"Evict">>]

\* One iteration of the loop of Commit.
CommitOp(w, op, envOK) ==
  CASE op.name = "evict" -> Statement_evict(w, op.task, envOK)
    [] op.name = "pipeline" ->
         [w |-> w, err |-> "", call |-> "", cerr |-> "", calls |-> <<>>]
    [] op.name = "allocate" -> Statement_allocate(w, op.task, envOK)

\* Commit: the journaled operations in the order of their insertion; an
\* operation that fails is logged and the loop goes on.  env[i] is the
\* answer of the environment to operation i.
RECURSIVE CommitFrom(_, _, _, _)
CommitFrom(w, operations, i, env) ==
  IF i > Len(operations) \/ w.fatal THEN w
  ELSE CommitFrom(CommitOp(w, operations[i], env[i]).w, operations, i + 1, env)

Statement_Commit(w, operations, env) == CommitFrom(w, operations, 1, env)

(***************************************************************************)
(* State.                                                                  *)
(***************************************************************************)
VARIABLES
  ni,        \* a NodeInfo driven directly through its methods
  pool,      \* the callers' TaskInfo objects handed to that NodeInfo
  niRet,     \* the last NodeInfo call and the error it returned
  scNodes,   \* SchedulerCache.Nodes
  scTasks,   \* the tasks of SchedulerCache.Jobs
  podGroup,  \* the kind of PodGroup of each cache job
  scQueues,  \* SchedulerCache.Queues
  pdb,       \* whether each cache job has a PDB
  prio,      \* the cache's priority classes, its default priority, each job's class name and Priority
  staleJobs, \* the JobIDs created anew in sc.Jobs while the JobInfo deleted from
             \* it under that JobID is still on the cleanup queue or with its worker
  plug,      \* what the plugins read of the jobs and tasks, and their last call
  inflight,  \* the detached effector goroutines, in the order of their launch
  errTasks,  \* SchedulerCache.errTasks, the resync queue
  ssnOpen,   \* whether a session is open
  ssnJobs,   \* Session.Jobs
  ssnTasks,  \* the tasks of Session.Jobs
  ssnNodes,  \* Session.Nodes
  evAlloc,   \* AllocateFunc calls per task since the statement was made
  evDealloc, \* DeallocateFunc calls per task since the statement was made
  stmt,      \* the statement: "none", "open", "committing", "committed", "discarded"
  ops,       \* Statement.operations
  cidx,      \* how many operations Commit has gone through
  pre,       \* the session's node vectors and task statuses, and the number of
             \* effector calls launched, when the statement was made
  failed,    \* whether an operation of the statement returned an error
  nStmts,    \* statements made so far
  ret,       \* the last step taken and what it returned
  nEvents,   \* informer events delivered
  mutex,     \* SchedulerCache.Mutex: the thread that holds it, or ""
  pc,        \* where each thread is in its call into the cache
  arg,       \* the arguments and locals of the calls in progress
  snap,      \* what the Snapshot call in progress has copied so far
  quiet,     \* the cache as the last whole operation left it
  points,    \* the cache between whole operations, since Snapshot was called
  deletedJobs, \* SchedulerCache.deletedJobs, the cleanup queue
  fatal      \* glog.Fatalf was reached: the process has ended

nodeVars == <<ni, pool, niRet>>

cacheVars == <<scNodes, scTasks, podGroup, inflight, errTasks>>

queueVars == <<scQueues, pdb, prio, staleJobs>>

pluginVars == <<plug>>

ssnVars == <<ssnOpen, ssnJobs, ssnTasks, ssnNodes, evAlloc, evDealloc>>

stmtVars == <<stmt, ops, cidx, pre, failed, nStmts>>

concVars == <<mutex, pc, arg, snap, quiet, points, deletedJobs>>

engineVars == <<cacheVars, queueVars, pluginVars, ssnVars, stmtVars, ret, nEvents, concVars>>

vars == <<nodeVars, engineVars, fatal>>

\* The bounds of the model.
MaxOps == 2
MaxEvents == 1
MaxStmts == 1

NoEvents == [t \in TaskIDs |-> 0]

NoRet ==
  [op |-> "", task |-> "", err |-> "", call |-> "", cerr |-> "", calls |-> <<>>]

Ret(op, t, err) ==
  [op |-> op, task |-> t, err |-> err, call |-> "", cerr |-> "", calls |-> <<>>]

\* What the plugins read: the jobs' MinAvailable and Priority and the tasks'
\* Priority; and the last call of a victim function: the plugin, the
\* arguments, the victims returned, those of them not evicted yet, the
\* ReadyTaskNum of each job when the call was made, the calls made so far.
NoPlug ==
  [MinAvailable |-> [j \in JobIDs |-> MinAvailable(j)],
   JobPriority |-> [j \in JobIDs |-> 1],
   TaskPriority |-> [t \in TaskIDs |-> 1],
   fn |-> "", preemptor |-> "", preemptees |-> <<>>, victims |-> <<>>,
   toEvict |-> <<>>, ready |-> [j \in JobIDs |-> 0], calls |-> 0,
   order |-> <<>>, conf |-> <<>>, less |-> <<>>,
   ssnUID |-> "", conditions |-> <<>>]

NoPre == [vec |-> <<>>, status |-> <<>>, launched |-> 0, trail |-> <<>>]

\* The state of the parts a specification leaves alone.
NodeIdle ==
  /\ ni = NewNodeInfo(NilNode)
  /\ pool = <<>>
  /\ niRet = NoRet

Threads == {"sched", "snap", "cleanup", "resync"}

NoArg ==
  [kind |-> "", task |-> "", host |-> "", conv |-> TRUE, orig |-> "", job |-> "",
   resync |-> "", requeues |-> 0]

NoSnap ==
  [Nodes |-> <<>>, Queues |-> {}, Jobs |-> {}, Tasks |-> <<>>, Priority |-> <<>>]

\* The cache with no priority class: defaultPriority 0, no job names a class,
\* every cache job has Priority 0.
NoClasses ==
  [PriorityClasses |-> <<>>, defaultPriority |-> 0,
   PriorityClassName |-> [j \in JobIDs |-> ""],
   Priority |-> [j \in JobIDs |-> 0]]

ConcIdle ==
  /\ mutex = "" /\ pc = [th \in Threads |-> "idle"] /\ arg = NoArg
  /\ snap = NoSnap /\ quiet = <<>> /\ points = {} /\ deletedJobs = {}

EngineIdle ==
  /\ ConcIdle
  /\ scNodes = <<>> /\ scTasks = <<>> /\ podGroup = <<>>
  /\ scQueues = {} /\ pdb = <<>> /\ prio = NoClasses /\ staleJobs = {} /\ plug = NoPlug
  /\ inflight = <<>> /\ errTasks = {}
  /\ ssnOpen = FALSE /\ ssnJobs = {} /\ ssnTasks = <<>> /\ ssnNodes = <<>>
  /\ evAlloc = NoEvents /\ evDealloc = NoEvents
  /\ stmt = "none" /\ ops = <<>> /\ cidx = 0 /\ pre = NoPre /\ failed = FALSE
  /\ nStmts = 0 /\ ret = NoRet /\ nEvents = 0

(***************************************************************************)
(* SpecNode: one NodeInfo under every sequence of its methods.             *)
(***************************************************************************)
\* The allocatable vectors a node object may carry.
AllocChoices == {Res(1, 1), Res(3, 2)}

\* The tasks handed to that NodeInfo: requests (1,1) and (2,1).
NodeTasks == {"t1", "t3"}

NodeChoices == {NilNode} \cup {NodeObj("n1", a) : a \in AllocChoices}

\* The statuses the callers give their tasks; every status other than
\* Releasing and Pipelined takes the default branch of the accounting.
PoolStatus == {Pending, Running, Pipelined, Releasing}

NodeInit ==
  /\ \E node \in NodeChoices : ni = NewNodeInfo(node)
  /\ \E nn \in {NoNodeName, "n2"} :
       pool = [t \in NodeTasks |->
                 NewTaskInfo(t, Pending, IF t = "t1" THEN nn ELSE NoNodeName)]
  /\ niRet = [op |-> "NewNodeInfo", task |-> "", err |-> ""]
  /\ EngineIdle
  /\ fatal = FALSE

NiSetNode(node) ==
  /\ ~fatal
  /\ ni' = SetNode(ni, node)
  /\ niRet' = [op |-> "SetNode", task |-> "", err |-> ""]
  /\ UNCHANGED <<pool, fatal, engineVars>>

NiAddTask(t) ==
  LET r == AddTask(ni, pool[t])
  IN /\ ~fatal
     /\ ni' = r.ni
     /\ pool' = [pool EXCEPT ![t] = r.task]
     /\ niRet' = [op |-> "AddTask", task |-> t, err |-> r.err]
     /\ UNCHANGED <<fatal, engineVars>>

NiRemoveTask(t) ==
  LET r == RemoveTask(ni, pool[t])
  IN /\ ~fatal
     /\ ni' = r.ni
     /\ niRet' = [op |-> "RemoveTask", task |-> t, err |-> r.err]
     /\ UNCHANGED <<pool, fatal, engineVars>>

\* The caller gives its task a new status and has the node take it over
\* (job.UpdateTaskStatus followed by node.UpdateTask, as Evict does).
NiUpdateTask(t, s) ==
  LET r == UpdateTask(ni, [pool[t] EXCEPT !.Status = s])
  IN /\ ~fatal
     /\ ni' = r.ni
     /\ pool' = [pool EXCEPT ![t] = r.task]
     /\ niRet' = [op |-> "UpdateTask", task |-> t, err |-> r.err]
     /\ fatal' = r.fatal
     /\ UNCHANGED engineVars

\* The caller changes the status of its own task object only.
NiSetStatus(t, s) ==
  /\ ~fatal
  /\ pool[t].Status # s
  /\ pool' = [pool EXCEPT ![t].Status = s]
  /\ niRet' = [op |-> "SetStatus", task |-> t, err |-> ""]
  /\ UNCHANGED <<ni, fatal, engineVars>>

NodeNext ==
  \/ \E node \in NodeChoices : NiSetNode(node)
  \/ \E t \in NodeTasks : NiAddTask(t)
  \/ \E t \in NodeTasks : NiRemoveTask(t)
  \/ \E t \in NodeTasks, s \in PoolStatus : NiUpdateTask(t, s)
  \/ \E t \in NodeTasks, s \in PoolStatus : NiSetStatus(t, s)

SpecNode == NodeInit /\ [][NodeNext]_vars

(***************************************************************************)
(* Spec: the cache, one session at a time over a snapshot of it, and the   *)
(* statements of that session.                                             *)
(***************************************************************************)
World ==
  [scNodes |-> scNodes, scTasks |-> scTasks, podGroup |-> podGroup,
   scQueues |-> scQueues, pdb |-> pdb, prio |-> prio, staleJobs |-> staleJobs,
   inflight |-> inflight, errTasks |-> errTasks,
   ssnJobs |-> ssnJobs, ssnTasks |-> ssnTasks, ssnNodes |-> ssnNodes,
   evAlloc |-> evAlloc, evDealloc |-> evDealloc, fatal |-> fatal]

SetWorld(w) ==
  /\ scNodes' = w.scNodes /\ scTasks' = w.scTasks /\ podGroup' = w.podGroup
  /\ inflight' = w.inflight /\ errTasks' = w.errTasks
  /\ ssnJobs' = w.ssnJobs /\ ssnTasks' = w.ssnTasks /\ ssnNodes' = w.ssnNodes
  /\ evAlloc' = w.evAlloc /\ evDealloc' = w.evDealloc /\ fatal' = w.fatal

\* The vectors of a node that a statement may change.
Vectors(node) == <<node.Idle, node.Used, node.Releasing, node.Pipelined>>

\* The session's nodes as they are: vectors, state and task copies.
NodesOf(w) == [n \in DOMAIN w.ssnNodes |-> SsnNode(w, n)]

\* trail is the session's nodes when the statement was made and after each
\* operation that was journaled since.
PreOf(w) ==
  [vec |-> [n \in DOMAIN w.ssnNodes |-> Vectors(SsnNode(w, n))],
   status |-> [t \in {x \in TaskIDs : HasSsnTask(w, x)} |-> SsnTask(w, t).Status],
   launched |-> Len(w.inflight),
   trail |-> <<NodesOf(w)>>]

Passed(r) ==
  IF r.journal THEN [pre EXCEPT !.trail = Append(@, NodesOf(r.w))] ELSE pre

\* Every queue that a job names is in the cache, and no job has a PDB.
AllQueues ==
  /\ scQueues = QueueIDs /\ pdb = [j \in JobIDs |-> FALSE] /\ prio = NoClasses
  /\ staleJobs = {}

\* The cache as the informers have filled it: t1 is pending; t2 is pending
\* or runs on n1; t3 is on n1, bound, running or being released.
RECURSIVE AddTasks(_, _, _)
AddTasks(node, tasks, keys) ==
  IF keys = {} THEN node
  ELSE LET k == CHOOSE x \in keys : TRUE
       IN AddTasks(AddTask(node, tasks[k]).ni, tasks, keys \ {k})

NodeAllocatable(n) == IF n = "n1" THEN Res(3, 2) ELSE Res(1, 1)

CacheOf(tasks) ==
  [n \in NodeNames |->
     AddTasks(NewNodeInfo(NodeObj(n, NodeAllocatable(n))), tasks,
              {t \in DOMAIN tasks : tasks[t].NodeName = n})]

Init ==
  /\ NodeIdle
  /\ ConcIdle
  /\ \E s2 \in {Pending, Running}, s3 \in {Bound, Running, Releasing} :
       /\ scTasks = [t \in TaskIDs |->
                       CASE t = "t1" -> NewTaskInfo(t, Pending, NoNodeName)
                         [] t = "t2" -> NewTaskInfo(t, s2,
                                          IF s2 = Pending THEN NoNodeName ELSE "n1")
                         [] OTHER -> NewTaskInfo(t, s3, "n1")]
       /\ scNodes = CacheOf(scTasks)
  /\ \E pg \in {"v1alpha2", "invalid", "nil"} :
       podGroup = [j \in JobIDs |-> IF j = "j1" THEN "v1alpha1" ELSE pg]
  /\ AllQueues
  /\ plug = NoPlug
  /\ inflight = <<>> /\ errTasks = {}
  /\ ssnOpen = FALSE /\ ssnJobs = {} /\ ssnTasks = <<>> /\ ssnNodes = <<>>
  /\ evAlloc = NoEvents /\ evDealloc = NoEvents
  /\ stmt = "none" /\ ops = <<>> /\ cidx = 0 /\ pre = NoPre /\ failed = FALSE
  /\ nStmts = 0 /\ ret = NoRet /\ nEvents = 0
  /\ fatal = FALSE

\* OpenSession: the session works on a snapshot of the cache.
OpenSession ==
  /\ ~fatal /\ ~ssnOpen /\ nStmts < MaxStmts
  /\ LET snapshot == Snapshot(World)
     IN /\ ssnJobs' = snapshot.Jobs
        /\ ssnTasks' = snapshot.Tasks
        /\ ssnNodes' = snapshot.Nodes
  /\ ssnOpen' = TRUE
  /\ evAlloc' = NoEvents /\ evDealloc' = NoEvents
  /\ stmt' = "none" /\ ops' = <<>> /\ cidx' = 0 /\ pre' = NoPre /\ failed' = FALSE
  /\ ret' = Ret("OpenSession", "", "")
  /\ UNCHANGED <<nodeVars, queueVars, pluginVars, concVars, cacheVars, nStmts, nEvents, fatal>>

CloseSession ==
  /\ ~fatal /\ ssnOpen /\ stmt \in {"none", "committed", "discarded"}
  /\ ssnOpen' = FALSE /\ ssnJobs' = {} /\ ssnTasks' = <<>> /\ ssnNodes' = <<>>
  /\ evAlloc' = NoEvents /\ evDealloc' = NoEvents
  /\ stmt' = "none" /\ ops' = <<>> /\ cidx' = 0 /\ pre' = NoPre /\ failed' = FALSE
  /\ ret' = Ret("CloseSession", "", "")
  /\ UNCHANGED <<nodeVars, queueVars, pluginVars, concVars, cacheVars, nStmts, nEvents, fatal>>

\* Session.Statement(): a statement with an empty journal.
NewStatement ==
  /\ ~fatal /\ ssnOpen /\ stmt \in {"none", "committed", "discarded"}
  /\ nStmts < MaxStmts
  /\ nStmts' = nStmts + 1
  /\ stmt' = "open" /\ ops' = <<>> /\ cidx' = 0 /\ failed' = FALSE
  /\ pre' = PreOf(World)
  /\ evAlloc' = NoEvents /\ evDealloc' = NoEvents
  /\ ret' = Ret("Statement", "", "")
  /\ UNCHANGED <<nodeVars, queueVars, pluginVars, concVars, cacheVars, ssnOpen, ssnJobs, ssnTasks, ssnNodes,
                 nEvents, fatal>>

\* The task objects the actions hand to Allocate and Pipeline: the tasks of
\* the Pending bucket, or a copy held by a node for a job the session lacks.
Placeable(t) ==
  /\ HasSsnTask(World, t)
  /\ JobOf(t) \in ssnJobs => (t \in DOMAIN ssnTasks /\ ssnTasks[t].Status = Pending)

CanAddOp == ~fatal /\ ssnOpen /\ stmt = "open" /\ Len(ops) < MaxOps

Journal(r, name, t, hostname) ==
  IF r.journal THEN Append(ops, [name |-> name, task |-> t, host |-> hostname])
  ELSE ops

StmtAllocate(t, hostname, volOK) ==
  /\ CanAddOp /\ Placeable(t)
  /\ LET r == Statement_Allocate(World, t, hostname, volOK)
     IN /\ SetWorld(r.w)
        /\ ops' = Journal(r, "allocate", t, hostname)
        /\ failed' = (failed \/ r.err # "")
        /\ ret' = Ret("Allocate", t, r.err)
        /\ pre' = Passed(r)
  /\ UNCHANGED <<nodeVars, queueVars, pluginVars, concVars, ssnOpen, stmt, cidx, nStmts, nEvents>>

StmtPipeline(t, hostname) ==
  /\ CanAddOp /\ Placeable(t)
  /\ LET r == Statement_Pipeline(World, t, hostname)
     IN /\ SetWorld(r.w)
        /\ ops' = Journal(r, "pipeline", t, hostname)
        /\ failed' = (failed \/ r.err # "")
        /\ ret' = Ret("Pipeline", t, r.err)
        /\ pre' = Passed(r)
  /\ UNCHANGED <<nodeVars, queueVars, pluginVars, concVars, ssnOpen, stmt, cidx, nStmts, nEvents>>

\* The actions evict tasks they find on the session's nodes.
StmtEvict(t) ==
  /\ CanAddOp /\ HoldersOf(World, t) # {}
  /\ JobOf(t) \in ssnJobs => t \in DOMAIN ssnTasks
  /\ LET r == Statement_Evict(World, t)
     IN /\ SetWorld(r.w)
        /\ ops' = Journal(r, "evict", t, "")
        /\ failed' = (failed \/ r.err # "")
        /\ ret' = Ret("Evict", t, r.err)
        /\ pre' = Passed(r)
  /\ UNCHANGED <<nodeVars, queueVars, pluginVars, concVars, ssnOpen, stmt, cidx, nStmts, nEvents>>

StmtDiscard ==
  /\ ~fatal /\ ssnOpen /\ stmt = "open"
  /\ SetWorld(Statement_Discard(World, ops))
  /\ stmt' = "discarded"
  /\ ret' = Ret("Discard", "", "")
  /\ UNCHANGED <<nodeVars, queueVars, pluginVars, concVars, ssnOpen, ops, cidx, pre, failed, nStmts, nEvents>>

\* Commit, one journaled operation at a time; envOK is the answer of the
\* volume binder (allocate) or of the PodGroup conversion (evict).
StmtCommit(envOK) ==
  /\ ~fatal /\ ssnOpen /\ stmt \in {"open", "committing"} /\ cidx < Len(ops)
  /\ LET op == ops[cidx + 1]
         r == CommitOp(World, op, envOK)
     IN /\ SetWorld(r.w)
        /\ ret' = [op |-> "commit." \o op.name, task |-> op.task, err |-> r.err,
                   call |-> r.call, cerr |-> r.cerr, calls |-> r.calls]
  /\ cidx' = cidx + 1
  /\ stmt' = IF cidx + 1 = Len(ops) THEN "committed" ELSE "committing"
  /\ failed' = (failed \/ CommitOp(World, ops[cidx + 1], envOK).err # "")
  /\ UNCHANGED <<nodeVars, queueVars, pluginVars, concVars, ssnOpen, ops, pre, nStmts, nEvents>>

StmtCommitEmpty ==
  /\ ~fatal /\ ssnOpen /\ stmt = "open" /\ ops = <<>>
  /\ stmt' = "committed"
  /\ ret' = Ret("Commit", "", "")
  /\ UNCHANGED <<nodeVars, queueVars, pluginVars, concVars, cacheVars, ssnVars, ops, cidx, pre, failed, nStmts, nEvents, fatal>>

\* The pod informer: a pod of the cache was deleted.
InformerDeletePod(t) ==
  /\ ~fatal /\ nEvents < MaxEvents /\ t \in DOMAIN scTasks
  /\ LET task == scTasks[t]
     IN scNodes' = IF task.NodeName \in DOMAIN scNodes
                     THEN [scNodes EXCEPT ![task.NodeName] = RemoveTask(@, task).ni]
                     ELSE scNodes
  /\ scTasks' = [x \in DOMAIN scTasks \ {t} |-> scTasks[x]]
  /\ nEvents' = nEvents + 1
  /\ ret' = Ret("DeletePod", t, "")
  /\ UNCHANGED <<nodeVars, queueVars, pluginVars, concVars, podGroup, inflight, errTasks, ssnVars, stmtVars, fatal>>

\* The node informer: a node of the cache was updated.
InformerSetNode(n, alloc) ==
  /\ ~fatal /\ nEvents < MaxEvents
  /\ scNodes[n].Node # NodeObj(n, alloc)
  /\ scNodes' = [scNodes EXCEPT ![n] = SetNode(@, NodeObj(n, alloc))]
  /\ nEvents' = nEvents + 1
  /\ ret' = Ret("UpdateNode", n, "")
  /\ UNCHANGED <<nodeVars, queueVars, pluginVars, concVars, scTasks, podGroup, inflight, errTasks, ssnVars,
                 stmtVars, fatal>>

Next ==
  \/ OpenSession
  \/ CloseSession
  \/ NewStatement
  \/ \E t \in TaskIDs, h \in NodeNames, volOK \in BOOLEAN : StmtAllocate(t, h, volOK)
  \/ \E t \in TaskIDs, h \in NodeNames : StmtPipeline(t, h)
  \/ \E t \in TaskIDs : StmtEvict(t)
  \/ StmtDiscard
  \/ \E envOK \in BOOLEAN : StmtCommit(envOK)
  \/ StmtCommitEmpty
  \/ \E t \in TaskIDs : InformerDeletePod(t)
  \/ \E n \in NodeNames, alloc \in AllocChoices : InformerSetNode(n, alloc)

Spec == Init /\ [][Next]_vars

(***************************************************************************)
(* SpecCache: the cache under direct Bind and Evict calls, and the         *)
(* detached goroutines of their effector calls.                            *)
(***************************************************************************)
MaxInflight == 2

RemoveAt(seq, i) == SubSeq(seq, 1, i - 1) \o SubSeq(seq, i + 1, Len(seq))

CacheBind(t, hostname) ==
  /\ ~fatal /\ Len(inflight) < MaxInflight
  /\ LET r == SchedulerCache_Bind(World, t, hostname)
     IN /\ SetWorld(r.w)
        /\ ret' = [op |-> "cache.Bind", task |-> t, err |-> r.err,
                   call |-> "Bind", cerr |-> r.err, calls |-> <<"Bind">>]
  /\ UNCHANGED <<nodeVars, queueVars, pluginVars, concVars, ssnOpen, stmtVars, nEvents>>

CacheEvict(t, convOK) ==
  /\ ~fatal /\ Len(inflight) < MaxInflight
  /\ LET r == SchedulerCache_Evict(World, t, convOK)
     IN /\ SetWorld(r.w)
        /\ ret' = [op |-> "cache.Evict", task |-> t, err |-> r.err,
                   call |-> "Evict", cerr |-> r.err, calls |-> <<"Evict">>]
  /\ UNCHANGED <<nodeVars, queueVars, pluginVars, concVars, ssnOpen, stmtVars, nEvents>>

\* The effector call of goroutine i returns without error: the goroutine ends.
EffectorDone(i) ==
  /\ ~fatal /\ i \in DOMAIN inflight /\ inflight[i].st = "running"
  /\ inflight' = RemoveAt(inflight, i)
  /\ ret' = Ret("effector.ok", inflight[i].task, "")
  /\ UNCHANGED <<nodeVars, queueVars, pluginVars, concVars, scNodes, scTasks, podGroup, errTasks, ssnVars,
                 stmtVars, nEvents, fatal>>

\* The effector call of goroutine i returns an error.
EffectorFail(i) ==
  /\ ~fatal /\ i \in DOMAIN inflight /\ inflight[i].st = "running"
  /\ inflight' = [inflight EXCEPT ![i].st = "failed"]
  /\ ret' = Ret("effector.err", inflight[i].task, inflight[i].kind)
  /\ UNCHANGED <<nodeVars, queueVars, pluginVars, concVars, scNodes, scTasks, podGroup, errTasks, ssnVars,
                 stmtVars, nEvents, fatal>>

\* Goroutine i, whose effector call failed, calls resyncTask and ends.
EffectorResync(i) ==
  /\ ~fatal /\ i \in DOMAIN inflight /\ inflight[i].st = "failed"
  /\ inflight' = RemoveAt(inflight, i)
  /\ errTasks' = resyncTask(errTasks, inflight[i].task)
  /\ ret' = Ret("resyncTask", inflight[i].task, "")
  /\ UNCHANGED <<nodeVars, queueVars, pluginVars, concVars, scNodes, scTasks, podGroup, ssnVars, stmtVars,
                 nEvents, fatal>>

\* The goroutines of task t whose effector call failed get to run.
ResyncOf(t) ==
  \E i \in 1..MaxInflight : i \in DOMAIN inflight /\ inflight[i].task = t /\ EffectorResync(i)

CacheNext ==
  \/ \E t \in TaskIDs, h \in NodeNames : CacheBind(t, h)
  \/ \E t \in TaskIDs, convOK \in BOOLEAN : CacheEvict(t, convOK)
  \/ \E i \in 1..MaxInflight : EffectorDone(i)
  \/ \E i \in 1..MaxInflight : EffectorFail(i)
  \/ \E i \in 1..MaxInflight : EffectorResync(i)

SpecCache == Init /\ [][CacheNext]_vars

\* The Go scheduler lets every runnable goroutine run.
FairSpecCache == SpecCache /\ \A t \in TaskIDs : WF_vars(ResyncOf(t))

(***************************************************************************)
(* SpecResync: the worker of the resync queue, from a cache in which the   *)
(* scheduler has bound t1 and evicted t3 and the two goroutines are about  *)
(* to call the Binder and the Evictor.                                     *)
(***************************************************************************)
MaxRequeues == 2

ResyncInit ==
  /\ NodeIdle
  /\ ConcIdle
  /\ \E s2 \in {Pending, Running}, queued \in SUBSET {"t2"} :
       LET tasks == [t \in TaskIDs |->
                       CASE t = "t1" -> NewTaskInfo(t, Pending, NoNodeName)
                         [] t = "t2" -> NewTaskInfo(t, s2,
                                          IF s2 = Pending THEN NoNodeName ELSE "n1")
                         [] OTHER -> NewTaskInfo(t, Running, "n1")]
           w0 == [scNodes |-> CacheOf(tasks), scTasks |-> tasks,
                  podGroup |-> [j \in JobIDs |-> "v1alpha1"],
                  inflight |-> <<>>, errTasks |-> queued, fatal |-> FALSE]
           w1 == SchedulerCache_Evict(w0, "t3", TRUE).w
           w2 == SchedulerCache_Bind(w1, "t1", "n1").w
       IN /\ scTasks = w2.scTasks /\ scNodes = w2.scNodes
          /\ podGroup = w2.podGroup
          /\ inflight = w2.inflight /\ errTasks = w2.errTasks
  /\ AllQueues
  /\ plug = NoPlug
  /\ ssnOpen = FALSE /\ ssnJobs = {} /\ ssnTasks = <<>> /\ ssnNodes = <<>>
  /\ evAlloc = NoEvents /\ evDealloc = NoEvents
  /\ stmt = "none" /\ ops = <<>> /\ cidx = 0 /\ pre = NoPre /\ failed = FALSE
  /\ nStmts = 0 /\ ret = NoRet /\ nEvents = 0
  /\ fatal = FALSE

\* processResyncTask: the worker takes a task from the queue.
ResyncGet(t) ==
  /\ ~fatal /\ pc["resync"] = "idle" /\ t \in errTasks
  /\ errTasks' = errTasks \ {t}
  /\ arg' = [arg EXCEPT !.resync = t]
  /\ pc' = [pc EXCEPT !["resync"] = "sync"]
  /\ ret' = Ret("errTasks.Get", t, "")
  /\ UNCHANGED <<nodeVars, queueVars, pluginVars, scNodes, scTasks, podGroup, inflight,
                 ssnVars, stmtVars, nEvents, mutex, snap, quiet, points, deletedJobs,
                 fatal>>

\* processResyncTask: syncTask on the task taken, and the retry. The read of
\* the pod fails MaxRequeues times at most; requeues counts the retries.
ResyncRun(apiOK) ==
  /\ ~fatal /\ pc["resync"] = "sync"
  /\ apiOK \/ arg.requeues < MaxRequeues
  /\ LET r == processResyncTask(World, arg.resync, apiOK)
     IN /\ SetWorld(r.w)
        /\ ret' = Ret("processResyncTask", arg.resync, r.err)
        /\ arg' = [arg EXCEPT !.requeues =
                     IF r.err # "" /\ @ < MaxRequeues THEN @ + 1 ELSE @]
  /\ pc' = [pc EXCEPT !["resync"] = "idle"]
  /\ UNCHANGED <<nodeVars, queueVars, pluginVars, ssnOpen, stmtVars, nEvents, mutex,
                 snap, quiet, points, deletedJobs>>

ResyncNext ==
  \/ \E i \in 1..MaxInflight : EffectorDone(i)
  \/ \E i \in 1..MaxInflight : EffectorFail(i)
  \/ \E i \in 1..MaxInflight : EffectorResync(i)
  \/ \E t \in TaskIDs : ResyncGet(t)
  \/ \E apiOK \in BOOLEAN : ResyncRun(apiOK)

SpecResync == ResyncInit /\ [][ResyncNext]_vars

\* The worker runs whenever it can.
FairSpecResync ==
  /\ SpecResync
  /\ \A t \in TaskIDs : WF_vars(ResyncGet(t))
  /\ WF_vars(\E apiOK \in BOOLEAN : ResyncRun(apiOK))

(***************************************************************************)
(* SpecGang: the allocate action, one job per cycle, over a session with   *)
(* the gang plugin: the job's pending tasks are placed in a statement,     *)
(* which is committed when the JobPipelinedFn holds and discarded if not.  *)
(***************************************************************************)
Perms(S) ==
  {f \in [1..Cardinality(S) -> S] : \A a, b \in DOMAIN f : f[a] = f[b] => a = b}

\* What the action does with task t on the node it picked for it.
PlaceTask(w, t, hostname) ==
  IF hostname \notin DOMAIN w.ssnNodes
    THEN [w |-> w, name |-> ""]
  ELSE IF LessEqual(SsnTask(w, t).Resreq, SsnNode(w, hostname).Idle)
    THEN LET r == Statement_Allocate(w, t, hostname, TRUE)
         IN [w |-> r.w, name |-> IF r.journal THEN "allocate" ELSE ""]
  ELSE IF LessEqual(SsnTask(w, t).Resreq, FutureIdle(SsnNode(w, hostname)))
    THEN LET r == Statement_Pipeline(w, t, hostname)
         IN [w |-> r.w, name |-> IF r.journal THEN "pipeline" ELSE ""]
  ELSE [w |-> w, name |-> ""]

RECURSIVE PlaceTasks(_, _, _, _)
PlaceTasks(w, journal, order, choice) ==
  IF order = <<>> THEN [w |-> w, ops |-> journal]
  ELSE LET t == Head(order)
           r == PlaceTask(w, t, choice[t])
       IN PlaceTasks(r.w,
                     IF r.name = "" THEN journal
                     ELSE Append(journal, [name |-> r.name, task |-> t, host |-> choice[t]]),
                     Tail(order), choice)

\* One cycle of the action for job j: order is the task order, choice the
\* node picked for each task, env the environment's answers at commit.
AllocateJob(j, order, choice, env) ==
  /\ ~fatal /\ ssnOpen /\ stmt \in {"none", "committed", "discarded"}
  /\ nStmts < MaxStmts
  /\ j \in ssnJobs /\ gangValidJobFn(ssnTasks, j)
  /\ order \in Perms(TaskStatusIndex(ssnTasks, j, Pending))
  /\ LET w0 == [World EXCEPT !.evAlloc = NoEvents, !.evDealloc = NoEvents]
         p == PlaceTasks(w0, <<>>, order, choice)
         commit == gangJobPipelinedFn(p.w.ssnTasks, j)
     IN /\ SetWorld(IF commit THEN Statement_Commit(p.w, p.ops, env)
                    ELSE Statement_Discard(p.w, p.ops))
        /\ ops' = p.ops
        /\ stmt' = IF commit THEN "committed" ELSE "discarded"
        /\ cidx' = IF commit THEN Len(p.ops) ELSE 0
        /\ ret' = [op |-> "allocate", task |-> j, err |-> "",
                   call |-> IF commit THEN "Commit" ELSE "Discard", cerr |-> "",
                   calls |-> <<>>]
  /\ pre' = PreOf(World)
  /\ failed' = FALSE
  /\ nStmts' = nStmts + 1
  /\ UNCHANGED <<nodeVars, queueVars, pluginVars, concVars, ssnOpen, nEvents>>

GangNext ==
  \/ OpenSession
  \/ CloseSession
  \/ \E j \in JobIDs, order \in UNION {Perms(S) : S \in SUBSET TaskIDs},
        choice \in [TaskIDs -> NodeNames], env \in [1..Cardinality(TaskIDs) -> BOOLEAN] :
       AllocateJob(j, order, choice, env)
  \/ \E t \in TaskIDs : InformerDeletePod(t)
  \/ \E n \in NodeNames, alloc \in AllocChoices : InformerSetNode(n, alloc)

SpecGang == Init /\ [][GangNext]_vars

(***************************************************************************)
(* SpecConc: the calls into the cache as threads that take the mutex: the  *)
(* scheduler's Bind and Evict, a caller of Snapshot, and the worker of     *)
(* processCleanupJob.  Each call is split at the statements of its body.   *)
(***************************************************************************)
\* sc.Mutex.Lock() returns once no thread holds the mutex.
MutexFree_Always(m) == TRUE

MutexFree(m) == m = ""

ViewOf(nodes, tasks, pgs) ==
  [scNodes |-> nodes, scTasks |-> tasks, podGroup |-> pgs,
   scQueues |-> scQueues, pdb |-> pdb, prio |-> prio]

SnapshotCalling == pc["snap"] \in {"lock", "nodes", "jobs"}

\* The deferred sc.Mutex.Unlock() of an operation that leaves the cache as
\* view.
Unlock(view) ==
  /\ mutex' = ""
  /\ quiet' = view
  /\ points' = IF SnapshotCalling THEN points \cup {view} ELSE points

otherVars == <<nodeVars, queueVars, pluginVars, ssnVars, stmtVars, nEvents>>

ConcInit ==
  /\ NodeIdle
  /\ \E s2 \in {Pending, Running}, has3 \in BOOLEAN :
       /\ scTasks = [t \in (IF has3 THEN TaskIDs ELSE TaskIDs \ {"t3"}) |->
                       CASE t = "t1" -> NewTaskInfo(t, Pending, NoNodeName)
                         [] t = "t2" -> NewTaskInfo(t, s2,
                                          IF s2 = Pending THEN NoNodeName ELSE "n1")
                         [] OTHER -> NewTaskInfo(t, Running, "n1")]
       /\ scNodes = CacheOf(scTasks)
  /\ podGroup = [j \in JobIDs |-> IF j = "j1" THEN "v1alpha1" ELSE "nil"]
  /\ AllQueues
  /\ plug = NoPlug
  /\ deletedJobs = {"j2"}
  /\ inflight = <<>> /\ errTasks = {}
  /\ ssnOpen = FALSE /\ ssnJobs = {} /\ ssnTasks = <<>> /\ ssnNodes = <<>>
  /\ evAlloc = NoEvents /\ evDealloc = NoEvents
  /\ stmt = "none" /\ ops = <<>> /\ cidx = 0 /\ pre = NoPre /\ failed = FALSE
  /\ nStmts = 0 /\ ret = NoRet /\ nEvents = 0
  /\ mutex = "" /\ pc = [th \in Threads |-> "idle"] /\ arg = NoArg
  /\ snap = NoSnap
  /\ quiet = ViewOf(scNodes, scTasks, podGroup)
  /\ points = {}
  /\ fatal = FALSE

\* The scheduler thread calls Bind or Evict.
SchedCall(kind, t, hostname, convOK) ==
  /\ ~fatal /\ pc["sched"] = "idle" /\ Len(inflight) < MaxInflight
  /\ pc' = [pc EXCEPT !["sched"] = "lock"]
  /\ arg' = [arg EXCEPT !.kind = kind, !.task = t, !.host = hostname,
                        !.conv = convOK, !.orig = ""]
  /\ UNCHANGED <<otherVars, cacheVars, ret, mutex, snap, quiet, points,
                 deletedJobs, fatal>>

SchedLock ==
  /\ ~fatal /\ pc["sched"] = "lock" /\ MutexFree(mutex)
  /\ mutex' = "sched"
  /\ pc' = [pc EXCEPT !["sched"] = "status"]
  /\ UNCHANGED <<otherVars, cacheVars, ret, arg, snap, quiet, points,
                 deletedJobs, fatal>>

\* Bind up to job.UpdateTaskStatus(task, Binding).
BindStatus ==
  /\ ~fatal /\ pc["sched"] = "status" /\ arg.kind = "bind"
  /\ IF ~findJobAndTask(World, arg.task) \/ arg.host \notin DOMAIN scNodes
       THEN /\ ret' = [op |-> "cache.Bind", task |-> arg.task,
                       err |-> IF ~findJobAndTask(World, arg.task)
                                 THEN "failed to find task" ELSE "host does not exist",
                       call |-> "Bind", cerr |-> "", calls |-> <<"Bind">>]
            /\ pc' = [pc EXCEPT !["sched"] = "idle"]
            /\ Unlock(ViewOf(scNodes, scTasks, podGroup))
            /\ UNCHANGED <<scTasks, arg>>
       ELSE /\ scTasks' = UpdateTaskStatus(scTasks, arg.task, Binding)
            /\ arg' = [arg EXCEPT !.orig = scTasks[arg.task].Status]
            /\ pc' = [pc EXCEPT !["sched"] = "node"]
            /\ UNCHANGED <<ret, mutex, quiet, points>>
  /\ UNCHANGED <<otherVars, scNodes, podGroup, inflight, errTasks, snap,
                 deletedJobs, fatal>>

\* Bind from node.AddTask(task) to its return.
BindAddTask ==
  /\ ~fatal /\ pc["sched"] = "node" /\ arg.kind = "bind"
  /\ arg.task \in DOMAIN scTasks
  /\ LET a == AddTask(scNodes[arg.host], scTasks[arg.task])
     IN /\ scTasks' = IF a.err # "" THEN UpdateTaskStatus(scTasks, arg.task, arg.orig)
                      ELSE [scTasks EXCEPT ![arg.task] = a.task]
        /\ scNodes' = IF a.err # "" THEN scNodes ELSE [scNodes EXCEPT ![arg.host] = a.ni]
        /\ inflight' = IF a.err # "" THEN inflight
                       ELSE Append(inflight, Goroutine("bind", arg.task, arg.host))
        /\ ret' = [op |-> "cache.Bind", task |-> arg.task, err |-> a.err,
                   call |-> "Bind", cerr |-> a.err, calls |-> <<"Bind">>]
  /\ pc' = [pc EXCEPT !["sched"] = "idle"]
  /\ Unlock(ViewOf(scNodes', scTasks', podGroup))
  /\ UNCHANGED <<otherVars, podGroup, errTasks, arg, snap, deletedJobs, fatal>>

\* Evict up to job.UpdateTaskStatus(task, Releasing).
EvictStatus ==
  /\ ~fatal /\ pc["sched"] = "status" /\ arg.kind = "evict"
  /\ IF ~findJobAndTask(World, arg.task)
        \/ scTasks[arg.task].NodeName \notin DOMAIN scNodes
       THEN /\ ret' = [op |-> "cache.Evict", task |-> arg.task,
                       err |-> IF ~findJobAndTask(World, arg.task)
                                 THEN "failed to find task" ELSE "host does not exist",
                       call |-> "Evict", cerr |-> "", calls |-> <<"Evict">>]
            /\ pc' = [pc EXCEPT !["sched"] = "idle"]
            /\ Unlock(ViewOf(scNodes, scTasks, podGroup))
            /\ UNCHANGED <<scTasks, arg>>
       ELSE /\ scTasks' = UpdateTaskStatus(scTasks, arg.task, Releasing)
            /\ arg' = [arg EXCEPT !.orig = scTasks[arg.task].Status]
            /\ pc' = [pc EXCEPT !["sched"] = "node"]
            /\ UNCHANGED <<ret, mutex, quiet, points>>
  /\ UNCHANGED <<otherVars, scNodes, podGroup, inflight, errTasks, snap,
                 deletedJobs, fatal>>

\* Evict from node.UpdateTask(task) to its return.
EvictUpdateTask ==
  /\ ~fatal /\ pc["sched"] = "node" /\ arg.kind = "evict"
  /\ arg.task \in DOMAIN scTasks
  /\ LET task == scTasks[arg.task]
         u == UpdateTask(scNodes[task.NodeName], task)
         pg == podGroup[JobOf(arg.task)]
         err == IF u.err # "" THEN u.err
                ELSE IF shadowPodGroup(pg) THEN ""
                ELSE IF pg \in {"v1alpha1", "v1alpha2"}
                  THEN (IF arg.conv THEN "" ELSE "conversion failed")
                ELSE "Invalid PodGroup Version"
     IN /\ scTasks' = IF u.err # "" THEN UpdateTaskStatus(scTasks, arg.task, arg.orig)
                      ELSE [scTasks EXCEPT ![arg.task] = u.task]
        /\ scNodes' = IF u.err # "" THEN scNodes
                      ELSE [scNodes EXCEPT ![task.NodeName] = u.ni]
        /\ fatal' = u.fatal
        /\ inflight' = IF u.err # "" \/ u.fatal THEN inflight
                       ELSE Append(inflight, Goroutine("evict", arg.task, task.NodeName))
        /\ ret' = [op |-> "cache.Evict", task |-> arg.task, err |-> err,
                   call |-> "Evict", cerr |-> err, calls |-> <<"Evict">>]
  /\ pc' = [pc EXCEPT !["sched"] = "idle"]
  /\ Unlock(ViewOf(scNodes', scTasks', podGroup))
  /\ UNCHANGED <<otherVars, podGroup, errTasks, arg, snap, deletedJobs>>

\* A thread calls Snapshot.
SnapCall ==
  /\ ~fatal /\ pc["snap"] \in {"idle", "done"}
  /\ pc' = [pc EXCEPT !["snap"] = "lock"]
  /\ snap' = NoSnap
  /\ points' = {quiet}
  /\ UNCHANGED <<otherVars, cacheVars, ret, mutex, arg, quiet, deletedJobs, fatal>>

SnapLock ==
  /\ ~fatal /\ pc["snap"] = "lock" /\ MutexFree(mutex)
  /\ mutex' = "snap"
  /\ pc' = [pc EXCEPT !["snap"] = "nodes"]
  /\ UNCHANGED <<otherVars, cacheVars, ret, arg, snap, quiet, points,
                 deletedJobs, fatal>>

\* Snapshot: the loop over sc.Nodes.
SnapNodes ==
  /\ ~fatal /\ pc["snap"] = "nodes"
  /\ snap' = [snap EXCEPT !.Nodes = Snapshot(World).Nodes]
  /\ pc' = [pc EXCEPT !["snap"] = "jobs"]
  /\ UNCHANGED <<otherVars, cacheVars, ret, mutex, arg, quiet, points,
                 deletedJobs, fatal>>

\* Snapshot: the loop over sc.Jobs, and the return.
SnapJobs ==
  /\ ~fatal /\ pc["snap"] = "jobs"
  /\ snap' = [snap EXCEPT !.Queues = Snapshot(World).Queues,
                          !.Jobs = Snapshot(World).Jobs,
                          !.Tasks = Snapshot(World).Tasks,
                          !.Priority = Snapshot(World).Priority]
  /\ pc' = [pc EXCEPT !["snap"] = "done"]
  /\ mutex' = ""
  /\ ret' = Ret("Snapshot", "", "")
  /\ UNCHANGED <<otherVars, cacheVars, arg, quiet, points, deletedJobs, fatal>>

\* processCleanupJob: the worker takes a job from the queue.
CleanupGet(j) ==
  /\ ~fatal /\ pc["cleanup"] = "idle" /\ j \in deletedJobs
  /\ deletedJobs' = deletedJobs \ {j}
  /\ arg' = [arg EXCEPT !.job = j]
  /\ pc' = [pc EXCEPT !["cleanup"] = "lock"]
  /\ UNCHANGED <<otherVars, cacheVars, ret, mutex, snap, quiet, points, fatal>>

CleanupLock ==
  /\ ~fatal /\ pc["cleanup"] = "lock" /\ MutexFree(mutex)
  /\ mutex' = "cleanup"
  /\ pc' = [pc EXCEPT !["cleanup"] = "check"]
  /\ UNCHANGED <<otherVars, cacheVars, ret, arg, snap, quiet, points,
                 deletedJobs, fatal>>

\* processCleanupJob: the job is deleted if it is terminated, and put back
\* on the queue if not.
CleanupRun ==
  /\ ~fatal /\ pc["cleanup"] = "check"
  /\ podGroup' = processCleanupJob(World, deletedJobs, arg.job).Jobs
  /\ deletedJobs' = processCleanupJob(World, deletedJobs, arg.job).deletedJobs
  /\ pc' = [pc EXCEPT !["cleanup"] = "idle"]
  /\ ret' = Ret("processCleanupJob", arg.job, "")
  /\ Unlock(ViewOf(scNodes, scTasks, podGroup'))
  /\ UNCHANGED <<otherVars, scNodes, scTasks, inflight, errTasks, arg, snap, fatal>>

ConcNext ==
  \/ \E kind \in {"bind", "evict"}, t \in TaskIDs, h \in NodeNames, convOK \in BOOLEAN :
       SchedCall(kind, t, h, convOK)
  \/ SchedLock
  \/ BindStatus
  \/ BindAddTask
  \/ EvictStatus
  \/ EvictUpdateTask
  \/ SnapCall
  \/ SnapLock
  \/ SnapNodes
  \/ SnapJobs
  \/ \E j \in JobIDs : CleanupGet(j)
  \/ CleanupLock
  \/ CleanupRun

SpecConc == ConcInit /\ [][ConcNext]_vars

(***************************************************************************)
(* SpecClose: sessions with the gang plugin, whose jobs are made ready or  *)
(* unready by a statement, closed with the plugin's OnSessionClose.        *)
(***************************************************************************)
SessionUIDs == {"ssn-a", "ssn-b"}

\* The orders in which a range over the session's jobs may visit them.
JobOrders == UNION {Perms(S) : S \in SUBSET JobIDs}

CloseInit ==
  /\ NodeIdle
  /\ ConcIdle
  /\ \E s2 \in {Pending, Running}, s3 \in {Bound, Running, Releasing} :
       /\ scTasks = [t \in TaskIDs |->
                       CASE t = "t1" -> NewTaskInfo(t, Pending, NoNodeName)
                         [] t = "t2" -> NewTaskInfo(t, s2,
                                          IF s2 = Pending THEN NoNodeName ELSE "n1")
                         [] OTHER -> NewTaskInfo(t, s3, "n1")]
       /\ scNodes = CacheOf(scTasks)
  /\ \E pg \in {"v1alpha1", "nil"} :
       podGroup = [j \in JobIDs |-> IF j = "j1" THEN "v1alpha1" ELSE pg]
  /\ AllQueues
  /\ \E uid \in SessionUIDs : plug = [NoPlug EXCEPT !.ssnUID = uid]
  /\ inflight = <<>> /\ errTasks = {}
  /\ ssnOpen = FALSE /\ ssnJobs = {} /\ ssnTasks = <<>> /\ ssnNodes = <<>>
  /\ evAlloc = NoEvents /\ evDealloc = NoEvents
  /\ stmt = "none" /\ ops = <<>> /\ cidx = 0 /\ pre = NoPre /\ failed = FALSE
  /\ nStmts = 0 /\ ret = NoRet /\ nEvents = 0
  /\ fatal = FALSE

\* CloseSession with the gang plugin registered: its OnSessionClose runs
\* over the session's jobs, then the session is emptied.
CloseSessionGang(order) ==
  /\ ~fatal /\ ssnOpen /\ stmt \in {"none", "committed", "discarded"}
  /\ {order[i] : i \in DOMAIN order} = ssnJobs
  /\ plug' = [plug EXCEPT !.fn = "gang.OnSessionClose",
                          !.conditions = gangOnSessionClose(ssnTasks, order, plug.ssnUID)]
  /\ ssnOpen' = FALSE /\ ssnJobs' = {} /\ ssnTasks' = <<>> /\ ssnNodes' = <<>>
  /\ evAlloc' = NoEvents /\ evDealloc' = NoEvents
  /\ stmt' = "none" /\ ops' = <<>> /\ cidx' = 0 /\ pre' = NoPre /\ failed' = FALSE
  /\ ret' = Ret("CloseSession", "", "")
  /\ UNCHANGED <<nodeVars, queueVars, concVars, cacheVars, nStmts, nEvents, fatal>>

CloseNext ==
  \/ OpenSession
  \/ NewStatement
  \/ \E t \in TaskIDs, h \in NodeNames : StmtAllocate(t, h, TRUE)
  \/ \E t \in TaskIDs : StmtEvict(t)
  \/ StmtDiscard
  \/ StmtCommitEmpty
  \/ \E order \in JobOrders : CloseSessionGang(order)

SpecClose == CloseInit /\ [][CloseNext]_vars

(***************************************************************************)
(* SpecFuture: one session whose statement is built the way the actions    *)
(* build it: Allocate on a node whose Idle covers the request, Pipeline on *)
(* a node whose FutureIdle covers it, Evict, and Discard one inverse at a  *)
(* time.                                                                   *)
(***************************************************************************)
\* allocate action: the task fits the node's Idle.
IssueAllocate(t, hostname) ==
  /\ hostname \in DOMAIN ssnNodes
  /\ LessEqual(Resreq(t), SsnNode(World, hostname).Idle)
  /\ StmtAllocate(t, hostname, TRUE)

\* allocate and preempt actions: the task fits the node's FutureIdle.
IssuePipeline(t, hostname) ==
  /\ hostname \in DOMAIN ssnNodes
  /\ LessEqual(Resreq(t), FutureIdle(SsnNode(World, hostname)))
  /\ StmtPipeline(t, hostname)

\* One turn of the loop of Discard: the inverse of the last journaled
\* operation not undone yet; cidx counts the inverses done.
DiscardStep ==
  /\ ~fatal /\ ssnOpen /\ stmt \in {"open", "discarding"} /\ cidx < Len(ops)
  /\ LET op == ops[Len(ops) - cidx]
     IN /\ SetWorld(Undo(World, op))
        /\ ret' = Ret(IF cidx + 1 = Len(ops) THEN "Discard" ELSE "un" \o op.name,
                      op.task, "")
  /\ cidx' = cidx + 1
  /\ stmt' = IF cidx + 1 = Len(ops) THEN "discarded" ELSE "discarding"
  /\ UNCHANGED <<nodeVars, queueVars, pluginVars, concVars, ssnOpen, ops, pre, failed,
                 nStmts, nEvents>>

\* Discard of a statement with an empty journal.
DiscardEmpty ==
  /\ ~fatal /\ ssnOpen /\ stmt = "open" /\ ops = <<>>
  /\ stmt' = "discarded"
  /\ ret' = Ret("Discard", "", "")
  /\ UNCHANGED <<nodeVars, queueVars, pluginVars, concVars, cacheVars, ssnOpen, ssnJobs,
                 ssnTasks, ssnNodes, evAlloc, evDealloc, ops, cidx, pre, failed,
                 nStmts, nEvents, fatal>>

FutureNext ==
  \/ OpenSession
  \/ NewStatement
  \/ \E t \in TaskIDs, h \in NodeNames : IssueAllocate(t, h)
  \/ \E t \in TaskIDs, h \in NodeNames : IssuePipeline(t, h)
  \/ \E t \in TaskIDs : StmtEvict(t)
  \/ DiscardStep
  \/ DiscardEmpty

SpecFuture == Init /\ [][FutureNext]_vars

(***************************************************************************)
(* SpecHold: the statements of a session, and Bind and Evict called on the *)
(* cache for any task and any node, in any order. The operations of an     *)
(* open statement touch the session only and the direct calls the cache    *)
(* only, so the direct calls are taken between statements.                 *)
(***************************************************************************)
HoldNext ==
  \/ OpenSession
  \/ NewStatement
  \/ \E t \in TaskIDs, h \in NodeNames : StmtAllocate(t, h, TRUE)
  \/ \E t \in TaskIDs, h \in NodeNames : StmtPipeline(t, h)
  \/ \E t \in TaskIDs : StmtEvict(t)
  \/ StmtDiscard
  \/ StmtCommit(TRUE)
  \/ StmtCommitEmpty
  \/ \E t \in TaskIDs, h \in NodeNames : stmt # "open" /\ CacheBind(t, h)
  \/ \E t \in TaskIDs : stmt # "open" /\ CacheEvict(t, TRUE)

\* The cache of Init with t1 and t2 Pending, t3 Running on n1 and no
\* PodGroup of the second job.
HoldInit ==
  /\ Init
  /\ podGroup["j2"] = "nil"
  /\ scTasks["t2"].Status = Pending /\ scTasks["t3"].Status = Running

SpecHold == HoldInit /\ [][HoldNext]_vars

(***************************************************************************)
(* SpecDetach: Bind and Evict step by step up to the go statement and from *)
(* it to the deferred Unlock, the detached goroutines from their start to  *)
(* Binder or Evictor call, which is slow (it does not return here), and    *)
(* Snapshot calls that take the same lock.                                 *)
(***************************************************************************)
\* A Bind or Evict that waits for the calls it has launched before it returns.
CanReturn_AfterCalls(goroutines) ==
  \A i \in DOMAIN goroutines : goroutines[i].st \notin {"launched", "running"}

\* The return of Bind and Evict after the go statement, with the deferred
\* sc.Mutex.Unlock(): it waits for no goroutine.
CanReturn(goroutines) == TRUE

\* Bind from node.AddTask(task) to the go statement.
DetachBindAddTask ==
  /\ ~fatal /\ pc["sched"] = "node" /\ arg.kind = "bind"
  /\ arg.task \in DOMAIN scTasks
  /\ LET a == AddTask(scNodes[arg.host], scTasks[arg.task])
     IN IF a.err # ""
          THEN /\ scTasks' = UpdateTaskStatus(scTasks, arg.task, arg.orig)
               /\ ret' = [op |-> "cache.Bind", task |-> arg.task, err |-> a.err,
                          call |-> "Bind", cerr |-> a.err, calls |-> <<"Bind">>]
               /\ pc' = [pc EXCEPT !["sched"] = "idle"]
               /\ Unlock(ViewOf(scNodes, scTasks', podGroup))
               /\ UNCHANGED <<scNodes, inflight>>
          ELSE /\ scTasks' = [scTasks EXCEPT ![arg.task] = a.task]
               /\ scNodes' = [scNodes EXCEPT ![arg.host] = a.ni]
               /\ inflight' = Append(inflight,
                                 [Goroutine("bind", arg.task, arg.host)
                                    EXCEPT !.st = "launched"])
               /\ pc' = [pc EXCEPT !["sched"] = "return"]
               /\ UNCHANGED <<ret, mutex, quiet, points>>
  /\ UNCHANGED <<otherVars, podGroup, errTasks, arg, snap, deletedJobs, fatal>>

\* Evict from node.UpdateTask(task) to the go statement.
DetachEvictUpdateTask ==
  /\ ~fatal /\ pc["sched"] = "node" /\ arg.kind = "evict"
  /\ arg.task \in DOMAIN scTasks
  /\ LET task == scTasks[arg.task]
         u == UpdateTask(scNodes[task.NodeName], task)
     IN IF u.err # ""
          THEN /\ scTasks' = UpdateTaskStatus(scTasks, arg.task, arg.orig)
               /\ ret' = [op |-> "cache.Evict", task |-> arg.task, err |-> u.err,
                          call |-> "Evict", cerr |-> u.err, calls |-> <<"Evict">>]
               /\ pc' = [pc EXCEPT !["sched"] = "idle"]
               /\ Unlock(ViewOf(scNodes, scTasks', podGroup))
               /\ UNCHANGED <<scNodes, inflight, fatal>>
          ELSE /\ scTasks' = [scTasks EXCEPT ![arg.task] = u.task]
               /\ scNodes' = [scNodes EXCEPT ![task.NodeName] = u.ni]
               /\ fatal' = u.fatal
               /\ inflight' = IF u.fatal THEN inflight
                              ELSE Append(inflight,
                                     [Goroutine("evict", arg.task, task.NodeName)
                                        EXCEPT !.st = "launched"])
               /\ pc' = [pc EXCEPT !["sched"] = "return"]
               /\ UNCHANGED <<ret, mutex, quiet, points>>
  /\ UNCHANGED <<otherVars, podGroup, errTasks, arg, snap, deletedJobs>>

\* Bind and Evict from the go statement to the return: nothing for Bind, the
\* conversion of the PodGroup and the event for Evict; then the deferred
\* Unlock.
DetachReturn ==
  /\ ~fatal /\ pc["sched"] = "return" /\ CanReturn(inflight)
  /\ LET pg == podGroup[JobOf(arg.task)]
         err == IF arg.kind = "bind" \/ shadowPodGroup(pg) THEN ""
                ELSE IF pg \in {"v1alpha1", "v1alpha2"}
                  THEN (IF arg.conv THEN "" ELSE "conversion failed")
                ELSE "Invalid PodGroup Version"
     IN ret' = [op |-> IF arg.kind = "bind" THEN "cache.Bind" ELSE "cache.Evict",
                task |-> arg.task, err |-> err,
                call |-> IF arg.kind = "bind" THEN "Bind" ELSE "Evict",
                cerr |-> err,
                calls |-> <<IF arg.kind = "bind" THEN "Bind" ELSE "Evict">>]
  /\ pc' = [pc EXCEPT !["sched"] = "idle"]
  /\ Unlock(ViewOf(scNodes, scTasks, podGroup))
  /\ UNCHANGED <<otherVars, cacheVars, arg, snap, deletedJobs, fatal>>

\* Goroutine i gets to run and calls Binder.Bind or Evictor.Evict.
EffectorStart(i) ==
  /\ ~fatal /\ i \in DOMAIN inflight /\ inflight[i].st = "launched"
  /\ inflight' = [inflight EXCEPT ![i].st = "running"]
  /\ ret' = Ret("effector.call", inflight[i].task, inflight[i].kind)
  /\ UNCHANGED <<nodeVars, queueVars, pluginVars, concVars, scNodes, scTasks, podGroup,
                 errTasks, ssnVars, stmtVars, nEvents, fatal>>

\* The steps of Bind and Evict under the lock.
SchedUnderLock ==
  \/ BindStatus
  \/ EvictStatus
  \/ DetachBindAddTask
  \/ DetachEvictUpdateTask
  \/ DetachReturn

\* The steps of Snapshot under the lock.
SnapUnderLock == SnapNodes \/ SnapJobs

\* The scheduler binds the pending task t1 and evicts t2, which runs on n1
\* or is pending.
DetachCalls ==
  {[kind |-> "bind", task |-> "t1", host |-> h, conv |-> TRUE] : h \in NodeNames}
    \cup {[kind |-> "evict", task |-> "t2", host |-> "", conv |-> c] : c \in BOOLEAN}

DetachNext ==
  \/ \E c \in DetachCalls : SchedCall(c.kind, c.task, c.host, c.conv)
  \/ SchedLock
  \/ SchedUnderLock
  \/ SnapCall
  \/ SnapLock
  \/ SnapUnderLock
  \/ \E i \in 1..MaxInflight : EffectorStart(i)

SpecDetach == ConcInit /\ [][DetachNext]_vars

\* A goroutine that holds the lock keeps running and sync.Mutex hands the
\* lock to a goroutine that keeps waiting for it; nothing is assumed of the
\* detached goroutines: a Binder or Evictor call may never start.
FairSpecDetach ==
  /\ SpecDetach
  /\ WF_vars(SchedUnderLock) /\ WF_vars(SnapUnderLock)
  /\ SF_vars(SnapLock)

(***************************************************************************)
(* SpecMutex: every operation that takes sc.Mutex, as threads: Bind, Evict *)
(* and taskUnschedulable of the scheduler, Snapshot, the deleted-jobs      *)
(* worker and the resync worker, with the detached goroutines of the       *)
(* effector calls, which are slow: no call returns here.                   *)
(***************************************************************************)
\* A deferred Unlock that is skipped when the operation returns an error.
DeferredUnlock_OnSuccess(holder, err) == IF err = "" THEN "" ELSE holder

\* defer sc.Mutex.Unlock(): the mutex after the operation of holder has
\* returned err.
DeferredUnlock(holder, err) == ""

\* taskUnschedulable under the lock: the event, and the condition handed to
\* StatusUpdater.UpdatePodCondition, whose error is returned.
taskUnschedulable(w, t, apiOK) ==
  [w |-> w, err |-> IF apiOK THEN "" ELSE "UpdatePodCondition"]

TaskUnschedulable(apiOK) ==
  /\ ~fatal /\ pc["sched"] = "status" /\ arg.kind = "unschedulable"
  /\ LET r == taskUnschedulable(World, arg.task, apiOK)
     IN /\ ret' = [op |-> "taskUnschedulable", task |-> arg.task, err |-> r.err,
                   call |-> "UpdatePodCondition", cerr |-> r.err,
                   calls |-> <<"UpdatePodCondition">>]
        /\ mutex' = DeferredUnlock("sched", r.err)
  /\ pc' = [pc EXCEPT !["sched"] = "idle"]
  /\ quiet' = ViewOf(scNodes, scTasks, podGroup)
  /\ points' = IF SnapshotCalling THEN points \cup {quiet'} ELSE points
  /\ UNCHANGED <<otherVars, cacheVars, arg, snap, deletedJobs, fatal>>

\* processResyncTask: the worker takes a task from the queue.
WorkerGet(t) ==
  /\ ~fatal /\ pc["resync"] = "idle" /\ t \in errTasks
  /\ errTasks' = errTasks \ {t}
  /\ arg' = [arg EXCEPT !.resync = t]
  /\ pc' = [pc EXCEPT !["resync"] = "lock"]
  /\ ret' = Ret("errTasks.Get", t, "")
  /\ UNCHANGED <<otherVars, scNodes, scTasks, podGroup, inflight, mutex, snap, quiet,
                 points, deletedJobs, fatal>>

\* syncTask takes the lock.
WorkerLock ==
  /\ ~fatal /\ pc["resync"] = "lock" /\ MutexFree(mutex)
  /\ mutex' = "resync"
  /\ pc' = [pc EXCEPT !["resync"] = "sync"]
  /\ UNCHANGED <<otherVars, cacheVars, ret, arg, snap, quiet, points,
                 deletedJobs, fatal>>

\* syncTask under the lock, its deferred Unlock, and the retry of
\* processResyncTask; apiOK: whether the pod could be read.
WorkerSync(apiOK) ==
  /\ ~fatal /\ pc["resync"] = "sync"
  /\ LET r == processResyncTask(World, arg.resync, apiOK)
     IN /\ scNodes' = r.w.scNodes /\ scTasks' = r.w.scTasks
        /\ errTasks' = r.w.errTasks
        /\ ret' = Ret("processResyncTask", arg.resync, r.err)
        /\ Unlock(ViewOf(r.w.scNodes, r.w.scTasks, podGroup))
  /\ pc' = [pc EXCEPT !["resync"] = "idle"]
  /\ UNCHANGED <<otherVars, podGroup, inflight, arg, snap, deletedJobs, fatal>>

\* The calls of the scheduler: Bind of the pending task t1 to n1, Evict of
\* t2, and taskUnschedulable for t1.
MutexCalls ==
  {[kind |-> "bind", task |-> "t1", host |-> "n1", conv |-> TRUE],
   [kind |-> "evict", task |-> "t2", host |-> "", conv |-> TRUE],
   [kind |-> "unschedulable", task |-> "t1", host |-> "", conv |-> TRUE]}

\* The cache with t1 pending and t2 running on n1, j2 on the queue of
\* deleted jobs, and t1 or t2 on the resync queue after an effector call
\* for it has failed.
MutexInit ==
  /\ NodeIdle
  /\ scTasks = [t \in {"t1", "t2"} |->
                  IF t = "t1" THEN NewTaskInfo(t, Pending, NoNodeName)
                  ELSE NewTaskInfo(t, Running, "n1")]
  /\ scNodes = CacheOf(scTasks)
  /\ podGroup = [j \in JobIDs |-> IF j = "j1" THEN "v1alpha1" ELSE "nil"]
  /\ AllQueues
  /\ plug = NoPlug
  /\ deletedJobs = {"j2"}
  /\ inflight = <<>>
  /\ \E t \in {"t1", "t2"} : errTasks = {t}
  /\ ssnOpen = FALSE /\ ssnJobs = {} /\ ssnTasks = <<>> /\ ssnNodes = <<>>
  /\ evAlloc = NoEvents /\ evDealloc = NoEvents
  /\ stmt = "none" /\ ops = <<>> /\ cidx = 0 /\ pre = NoPre /\ failed = FALSE
  /\ nStmts = 0 /\ ret = NoRet /\ nEvents = 0
  /\ mutex = "" /\ pc = [th \in Threads |-> "idle"] /\ arg = NoArg
  /\ snap = NoSnap
  /\ quiet = ViewOf(scNodes, scTasks, podGroup)
  /\ points = {}
  /\ fatal = FALSE

\* The steps that a thread takes while it holds the mutex.
UnderLock ==
  \/ SchedUnderLock
  \/ \E apiOK \in BOOLEAN : TaskUnschedulable(apiOK)
  \/ SnapUnderLock
  \/ CleanupRun
  \/ \E apiOK \in BOOLEAN : WorkerSync(apiOK)

MutexNext ==
  \/ \E c \in MutexCalls : SchedCall(c.kind, c.task, c.host, c.conv)
  \/ SchedLock
  \/ SnapCall
  \/ SnapLock
  \/ \E j \in JobIDs : CleanupGet(j)
  \/ CleanupLock
  \/ \E t \in TaskIDs : WorkerGet(t)
  \/ WorkerLock
  \/ UnderLock
  \/ \E i \in 1..MaxInflight : EffectorStart(i)

SpecMutex == MutexInit /\ [][MutexNext]_vars

(***************************************************************************)
(* SpecCleanup: the worker of the deleted-jobs queue, next to Snapshot     *)
(* calls that take the same lock and to the informer handlers that delete  *)
(* pods and PodGroups and put a job that became terminated on the queue.   *)
(***************************************************************************)
MaxDeletes == 2

\* Job j2 has a PodGroup or not and a task or not; a terminated job is on
\* the queue, and a job may be on it that is not terminated.
CleanupInit ==
  /\ NodeIdle
  /\ \E has3 \in BOOLEAN :
       /\ scTasks = [t \in (IF has3 THEN TaskIDs ELSE TaskIDs \ {"t3"}) |->
                       IF t = "t3" THEN NewTaskInfo(t, Running, "n1")
                                   ELSE NewTaskInfo(t, Pending, NoNodeName)]
       /\ scNodes = CacheOf(scTasks)
  /\ \E pg \in {"nil", "v1alpha1"} :
       podGroup = [j \in JobIDs |-> IF j = "j1" THEN "v1alpha1" ELSE pg]
  /\ AllQueues
  /\ plug = NoPlug
  /\ \E queued \in SUBSET JobIDs :
       deletedJobs = queued \cup
         {j \in JobIDs : JobTerminated([podGroup |-> podGroup, scTasks |-> scTasks], j)}
  /\ inflight = <<>> /\ errTasks = {}
  /\ ssnOpen = FALSE /\ ssnJobs = {} /\ ssnTasks = <<>> /\ ssnNodes = <<>>
  /\ evAlloc = NoEvents /\ evDealloc = NoEvents
  /\ stmt = "none" /\ ops = <<>> /\ cidx = 0 /\ pre = NoPre /\ failed = FALSE
  /\ nStmts = 0 /\ ret = NoRet /\ nEvents = 0
  /\ mutex = "" /\ pc = [th \in Threads |-> "idle"] /\ arg = NoArg
  /\ snap = NoSnap
  /\ quiet = ViewOf(scNodes, scTasks, podGroup)
  /\ points = {}
  /\ fatal = FALSE

\* The pod informer's DeletePod, from lock to unlock: the task leaves its
\* job and its node, and the job is put on the queue if it is terminated now.
HandlerDeletePod(t) ==
  /\ ~fatal /\ MutexFree(mutex) /\ nEvents < MaxDeletes /\ t \in DOMAIN scTasks
  /\ LET task == scTasks[t]
     IN scNodes' = IF task.NodeName \in DOMAIN scNodes
                     THEN [scNodes EXCEPT ![task.NodeName] = RemoveTask(@, task).ni]
                     ELSE scNodes
  /\ scTasks' = [x \in DOMAIN scTasks \ {t} |-> scTasks[x]]
  /\ deletedJobs' = IF JobOf(t) \in DOMAIN podGroup
                        /\ JobTerminated([World EXCEPT !.scTasks = scTasks'], JobOf(t))
                      THEN deleteJob(deletedJobs, JobOf(t))
                      ELSE deletedJobs
  /\ nEvents' = nEvents + 1
  /\ ret' = Ret("DeletePod", t, "")
  /\ Unlock(ViewOf(scNodes', scTasks', podGroup))
  /\ UNCHANGED <<nodeVars, queueVars, pluginVars, podGroup, inflight, errTasks,
                 ssnVars, stmtVars, pc, arg, snap, fatal>>

\* The PodGroup informer's DeletePodGroup, from lock to unlock.
HandlerDeletePodGroup(j) ==
  /\ ~fatal /\ MutexFree(mutex) /\ nEvents < MaxDeletes
  /\ j \in DOMAIN podGroup /\ podGroup[j] # "nil"
  /\ podGroup' = [podGroup EXCEPT ![j] = "nil"]
  /\ deletedJobs' = IF JobTerminated([World EXCEPT !.podGroup = podGroup'], j)
                      THEN deleteJob(deletedJobs, j)
                      ELSE deletedJobs
  /\ nEvents' = nEvents + 1
  /\ ret' = Ret("DeletePodGroup", j, "")
  /\ Unlock(ViewOf(scNodes, scTasks, podGroup'))
  /\ UNCHANGED <<nodeVars, queueVars, pluginVars, scNodes, scTasks, inflight, errTasks,
                 ssnVars, stmtVars, pc, arg, snap, fatal>>

CleanupNext ==
  \/ \E j \in JobIDs : CleanupGet(j)
  \/ CleanupLock
  \/ CleanupRun
  \/ SnapCall
  \/ SnapLock
  \/ SnapNodes
  \/ SnapJobs
  \/ \E t \in TaskIDs : HandlerDeletePod(t)
  \/ \E j \in JobIDs : HandlerDeletePodGroup(j)

SpecCleanup == CleanupInit /\ [][CleanupNext]_vars

\* Every goroutine that can run does run, sync.Mutex hands the lock to a
\* goroutine that keeps waiting for it, and the queue is first in, first
\* out: a job on it is taken after the jobs put on it before.
FairSpecCleanup ==
  /\ SpecCleanup
  /\ \A j \in JobIDs : SF_vars(CleanupGet(j))
  /\ SF_vars(CleanupLock) /\ WF_vars(CleanupRun)
  /\ WF_vars(SnapNodes) /\ WF_vars(SnapJobs)

(***************************************************************************)
(* SpecRecreate: the deleted-jobs worker, the informers' delete handlers   *)
(* and the creation of a job under a JobID that sc.Jobs no longer has.     *)
(***************************************************************************)
\* The worker has taken the job object of JobID j from the queue.
WorkerHolds(j) == pc["cleanup"] \in {"lock", "check"} /\ arg.job = j

\* The PodGroup informer's AddPodGroup, from lock to unlock: the PodGroup is
\* set on the JobInfo of its JobID, which is made if sc.Jobs has none.
HandlerAddPodGroup(j) ==
  /\ ~fatal /\ MutexFree(mutex)
  /\ IF j \in DOMAIN podGroup THEN podGroup[j] = "nil" ELSE TRUE
  /\ podGroup' = [x \in DOMAIN podGroup \cup {j} |->
                    IF x = j THEN "v1alpha1" ELSE podGroup[x]]
  /\ staleJobs' = IF j \notin DOMAIN podGroup /\ (j \in deletedJobs \/ WorkerHolds(j))
                    THEN staleJobs \cup {j} ELSE staleJobs
  /\ ret' = Ret("AddPodGroup", j, "")
  /\ Unlock(ViewOf(scNodes, scTasks, podGroup'))
  /\ UNCHANGED <<nodeVars, scQueues, pdb, prio, pluginVars, scNodes, scTasks, inflight,
                 errTasks, ssnVars, stmtVars, nEvents, pc, arg, snap, deletedJobs, fatal>>

\* processCleanupJob from the check to the return; the tasks of a JobInfo
\* go with it when it is deleted from sc.Jobs.
CleanupRunQueued ==
  /\ ~fatal /\ pc["cleanup"] = "check"
  /\ LET r == processCleanupJob(World, deletedJobs, arg.job)
     IN /\ podGroup' = r.Jobs
        /\ deletedJobs' = r.deletedJobs
        /\ scTasks' = [t \in {x \in DOMAIN scTasks : JobOf(x) \in DOMAIN r.Jobs} |->
                         scTasks[t]]
  /\ staleJobs' = staleJobs \ {arg.job}
  /\ pc' = [pc EXCEPT !["cleanup"] = "idle"]
  /\ ret' = Ret("processCleanupJob", arg.job, "")
  /\ Unlock(ViewOf(scNodes, scTasks', podGroup'))
  /\ UNCHANGED <<nodeVars, scQueues, pdb, prio, pluginVars, scNodes, inflight, errTasks,
                 ssnVars, stmtVars, nEvents, arg, snap, fatal>>

\* The queue holds one job object of a JobID at a time: no delete event
\* of a job comes while a deleted JobInfo of its JobID is still around.
DeletePodOfJob(t) == JobOf(t) \notin staleJobs /\ HandlerDeletePod(t)

DeletePodGroupOfJob(j) == j \notin staleJobs /\ HandlerDeletePodGroup(j)

RecreateNext ==
  \/ \E j \in JobIDs : CleanupGet(j)
  \/ CleanupLock
  \/ CleanupRunQueued
  \/ \E t \in TaskIDs : DeletePodOfJob(t)
  \/ \E j \in JobIDs : DeletePodGroupOfJob(j)
  \/ \E j \in JobIDs : HandlerAddPodGroup(j)

SpecRecreate == CleanupInit /\ [][RecreateNext]_vars

\* The names and values of priority classes, and the default priorities a
\* cache starts with.
ClassNames == {"high", "low"}

ClassValues == {10, 20}

DefaultPriorities == {0, 5}

(***************************************************************************)
(* SpecSnap: Snapshot over caches in which a queue may be missing, a job   *)
(* may have a PDB, and the informers add and delete queues and update      *)
(* nodes.                                                                  *)
(***************************************************************************)
SnapInit ==
  /\ NodeIdle
  /\ ConcIdle
  /\ \E s2 \in {Pending, Running}, s3 \in {Bound, Running, Releasing} :
       /\ scTasks = [t \in TaskIDs |->
                       CASE t = "t1" -> NewTaskInfo(t, Pending, NoNodeName)
                         [] t = "t2" -> NewTaskInfo(t, s2,
                                          IF s2 = Pending THEN NoNodeName ELSE "n1")
                         [] OTHER -> NewTaskInfo(t, s3, "n1")]
       /\ scNodes = CacheOf(scTasks)
  /\ \E pg \in {"v1alpha2", "shadow", "nil"} :
       podGroup = [j \in JobIDs |-> IF j = "j1" THEN "v1alpha1" ELSE pg]
  /\ \E qs \in SUBSET QueueIDs : scQueues = qs
  /\ \E p \in BOOLEAN : pdb = [j \in JobIDs |-> j = "j2" /\ p]
  /\ staleJobs = {}
  /\ \E known \in SUBSET {"high"}, dp \in DefaultPriorities :
       prio = [PriorityClasses |-> [c \in known |-> 10],
               defaultPriority |-> dp,
               PriorityClassName |-> [j \in JobIDs |-> IF j = "j1" THEN "high" ELSE "low"],
               Priority |-> [j \in JobIDs |-> 0]]
  /\ plug = NoPlug
  /\ inflight = <<>> /\ errTasks = {}
  /\ ssnOpen = FALSE /\ ssnJobs = {} /\ ssnTasks = <<>> /\ ssnNodes = <<>>
  /\ evAlloc = NoEvents /\ evDealloc = NoEvents
  /\ stmt = "none" /\ ops = <<>> /\ cidx = 0 /\ pre = NoPre /\ failed = FALSE
  /\ nStmts = 0 /\ ret = NoRet /\ nEvents = 0
  /\ fatal = FALSE

\* A call of Snapshot, from lock to unlock. The Priority it computes for a
\* job is assigned to the cache's job before that job is cloned.
TakeSnapshot ==
  /\ ~fatal
  /\ snap' = Snapshot(World)
  /\ prio' = [prio EXCEPT !.Priority = SnapshotJobPriority(World)]
  /\ ret' = Ret("Snapshot", "", "")
  /\ UNCHANGED <<nodeVars, scQueues, pdb, staleJobs, pluginVars, cacheVars, ssnVars, stmtVars,
                 nEvents, mutex, pc, arg, quiet, points, deletedJobs, fatal>>

\* The priority-class informer: a class was added to, replaced in or deleted
\* from the cache's PriorityClasses.
AddPriorityClass(c, v) ==
  /\ ~fatal /\ nEvents < MaxEvents /\ c \notin DOMAIN prio.PriorityClasses
  /\ prio' = [prio EXCEPT !.PriorityClasses =
                 [x \in DOMAIN @ \cup {c} |-> IF x = c THEN v ELSE @[x]]]
  /\ nEvents' = nEvents + 1
  /\ ret' = Ret("AddPriorityClass", c, "")
  /\ UNCHANGED <<nodeVars, scQueues, pdb, staleJobs, pluginVars, concVars, cacheVars, ssnVars,
                 stmtVars, fatal>>

UpdatePriorityClass(c, v) ==
  /\ ~fatal /\ nEvents < MaxEvents /\ c \in DOMAIN prio.PriorityClasses
  /\ prio.PriorityClasses[c] # v
  /\ prio' = [prio EXCEPT !.PriorityClasses[c] = v]
  /\ nEvents' = nEvents + 1
  /\ ret' = Ret("UpdatePriorityClass", c, "")
  /\ UNCHANGED <<nodeVars, scQueues, pdb, staleJobs, pluginVars, concVars, cacheVars, ssnVars,
                 stmtVars, fatal>>

DeletePriorityClass(c) ==
  /\ ~fatal /\ nEvents < MaxEvents /\ c \in DOMAIN prio.PriorityClasses
  /\ prio' = [prio EXCEPT !.PriorityClasses =
                 [x \in DOMAIN @ \ {c} |-> @[x]]]
  /\ nEvents' = nEvents + 1
  /\ ret' = Ret("DeletePriorityClass", c, "")
  /\ UNCHANGED <<nodeVars, scQueues, pdb, staleJobs, pluginVars, concVars, cacheVars, ssnVars,
                 stmtVars, fatal>>

\* The queue informer: a queue was added to or deleted from the cache.
InformerAddQueue(q) ==
  /\ ~fatal /\ nEvents < MaxEvents /\ q \notin scQueues
  /\ scQueues' = scQueues \cup {q}
  /\ nEvents' = nEvents + 1
  /\ ret' = Ret("AddQueue", q, "")
  /\ UNCHANGED <<nodeVars, pdb, prio, staleJobs, pluginVars, concVars, cacheVars, ssnVars, stmtVars, fatal>>

InformerDeleteQueue(q) ==
  /\ ~fatal /\ nEvents < MaxEvents /\ q \in scQueues
  /\ scQueues' = scQueues \ {q}
  /\ nEvents' = nEvents + 1
  /\ ret' = Ret("DeleteQueue", q, "")
  /\ UNCHANGED <<nodeVars, pdb, prio, staleJobs, pluginVars, concVars, cacheVars, ssnVars, stmtVars, fatal>>

SnapNext ==
  \/ TakeSnapshot
  \/ \E q \in QueueIDs : InformerAddQueue(q)
  \/ \E q \in QueueIDs : InformerDeleteQueue(q)
  \/ \E t \in TaskIDs : InformerDeletePod(t)
  \/ \E n \in NodeNames, alloc \in AllocChoices : InformerSetNode(n, alloc)
  \/ \E c \in ClassNames, v \in ClassValues : AddPriorityClass(c, v)
  \/ \E c \in ClassNames, v \in ClassValues : UpdatePriorityClass(c, v)
  \/ \E c \in ClassNames : DeletePriorityClass(c)

SpecSnap == SnapInit /\ [][SnapNext]_vars

(***************************************************************************)
(* SpecPreempt: the gang plugin's victim function under a sequence of      *)
(* calls in one statement; the victims of a call are evicted with          *)
(* Statement.Evict before the next call is made.                           *)
(***************************************************************************)
MaxCalls == 2
MaxCands == 3

\* The candidate lists: any tasks, in any order, a task more than once.
CandLists == UNION {[1..n -> TaskIDs] : n \in 0..MaxCands}

\* t1 is pending or runs on n2, t2 is pending or runs on n1, t3 runs on n1;
\* j1 has MinAvailable 0, 1 or 2 and j2 has 0 or 1.
PreemptInit ==
  /\ NodeIdle
  /\ ConcIdle
  /\ \E s1 \in {Pending, Running}, s2 \in {Pending, Running} :
       /\ scTasks = [t \in TaskIDs |->
                       CASE t = "t1" -> NewTaskInfo(t, s1,
                                          IF s1 = Pending THEN NoNodeName ELSE "n2")
                         [] t = "t2" -> NewTaskInfo(t, s2,
                                          IF s2 = Pending THEN NoNodeName ELSE "n1")
                         [] OTHER -> NewTaskInfo(t, Running, "n1")]
       /\ scNodes = CacheOf(scTasks)
  /\ podGroup = [j \in JobIDs |-> "v1alpha1"]
  /\ AllQueues
  /\ \E m1 \in 0..2, m2 \in 0..1 :
       plug = [NoPlug EXCEPT
                 !.MinAvailable = [j \in JobIDs |-> IF j = "j1" THEN m1 ELSE m2]]
  /\ inflight = <<>> /\ errTasks = {}
  /\ ssnOpen = FALSE /\ ssnJobs = {} /\ ssnTasks = <<>> /\ ssnNodes = <<>>
  /\ evAlloc = NoEvents /\ evDealloc = NoEvents
  /\ stmt = "none" /\ ops = <<>> /\ cidx = 0 /\ pre = NoPre /\ failed = FALSE
  /\ nStmts = 0 /\ ret = NoRet /\ nEvents = 0
  /\ fatal = FALSE

\* The candidates are tasks of the session's jobs.
InSession(preemptor, preemptees) ==
  /\ preemptor \in DOMAIN ssnTasks
  /\ \A i \in 1..Len(preemptees) : preemptees[i] \in DOMAIN ssnTasks

\* A call of the gang plugin's PreemptableFn or ReclaimableFn.
GangPreemptable(preemptor, preemptees) ==
  /\ ~fatal /\ ssnOpen /\ stmt = "open"
  /\ plug.toEvict = <<>> /\ plug.calls < MaxCalls
  /\ InSession(preemptor, preemptees)
  /\ LET victims == gangPreemptableFn(ssnTasks, plug.MinAvailable, preemptor, preemptees)
     IN plug' = [plug EXCEPT !.fn = "gang", !.preemptor = preemptor,
                             !.preemptees = preemptees, !.victims = victims,
                             !.toEvict = victims, !.calls = @ + 1,
                             !.ready = [j \in JobIDs |-> ReadyTaskNum(ssnTasks, j)]]
  /\ ret' = Ret("gang.Preemptable", preemptor, "")
  /\ UNCHANGED <<nodeVars, queueVars, concVars, cacheVars, ssnVars, stmtVars,
                 nEvents, fatal>>

\* The caller evicts the next victim of the last call.
EvictVictim ==
  /\ ~fatal /\ ssnOpen /\ stmt = "open" /\ plug.toEvict # <<>>
  /\ LET t == Head(plug.toEvict)
         r == Statement_Evict(World, t)
     IN /\ SetWorld(r.w)
        /\ ops' = Journal(r, "evict", t, "")
        /\ failed' = (failed \/ r.err # "")
        /\ ret' = Ret("Evict", t, r.err)
  /\ plug' = [plug EXCEPT !.toEvict = Tail(@)]
  /\ UNCHANGED <<nodeVars, queueVars, concVars, ssnOpen, stmt, cidx, pre, nStmts, nEvents>>

PreemptNext ==
  \/ OpenSession
  \/ NewStatement
  \/ \E preemptor \in TaskIDs, preemptees \in CandLists :
       GangPreemptable(preemptor, preemptees)
  \/ EvictVictim

SpecPreempt == PreemptInit /\ [][PreemptNext]_vars

(***************************************************************************)
(* SpecPriority: the priority plugin's victim function over jobs and       *)
(* tasks of every priority.                                                *)
(***************************************************************************)
Priorities == 1..2

PriorityInit ==
  /\ NodeIdle
  /\ ConcIdle
  /\ scTasks = [t \in TaskIDs |->
                  IF t = "t1" THEN NewTaskInfo(t, Pending, NoNodeName)
                  ELSE NewTaskInfo(t, Running, "n1")]
  /\ scNodes = CacheOf(scTasks)
  /\ podGroup = [j \in JobIDs |-> "v1alpha1"]
  /\ AllQueues
  /\ \E jp \in [JobIDs -> Priorities], tp \in [TaskIDs -> Priorities] :
       plug = [NoPlug EXCEPT !.JobPriority = jp, !.TaskPriority = tp]
  /\ inflight = <<>> /\ errTasks = {}
  /\ ssnOpen = FALSE /\ ssnJobs = {} /\ ssnTasks = <<>> /\ ssnNodes = <<>>
  /\ evAlloc = NoEvents /\ evDealloc = NoEvents
  /\ stmt = "none" /\ ops = <<>> /\ cidx = 0 /\ pre = NoPre /\ failed = FALSE
  /\ nStmts = 0 /\ ret = NoRet /\ nEvents = 0
  /\ fatal = FALSE

\* A call of the priority plugin's PreemptableFn.
PriorityPreemptable(preemptor, preemptees) ==
  /\ ~fatal /\ ssnOpen
  /\ InSession(preemptor, preemptees)
  /\ plug' = [plug EXCEPT
                !.fn = "priority", !.preemptor = preemptor,
                !.preemptees = preemptees,
                !.victims = priorityPreemptableFn(plug.JobPriority, plug.TaskPriority,
                                                  preemptor, preemptees)]
  /\ ret' = Ret("priority.Preemptable", preemptor, "")
  /\ UNCHANGED <<nodeVars, queueVars, concVars, cacheVars, ssnVars, stmtVars,
                 nEvents, fatal>>

PriorityNext ==
  \/ OpenSession
  \/ \E preemptor \in TaskIDs, preemptees \in CandLists :
       PriorityPreemptable(preemptor, preemptees)

SpecPriority == PriorityInit /\ [][PriorityNext]_vars

(***************************************************************************)
(* SpecOrder: the session's job order under the priority plugin followed   *)
(* by the gang plugin, over jobs of every priority and readiness.          *)
(***************************************************************************)
\* The jobs compared: Priority 1 or 2, MinAvailable 1 or 2, 0 to 2 ready tasks.
OrderJobs == [Priority : Priorities, MinAvailable : 1..2, ReadyTaskNum : 0..2]

\* priority before gang, in one tier or in two consecutive tiers.
OrderTiers == {<<<<"priority", "gang">>>>, <<<<"priority">>, <<"gang">>>>}

OrderInit ==
  /\ NodeIdle
  /\ EngineIdle
  /\ fatal = FALSE

\* The session compares the jobs a, b and c two by two; the comparison reads
\* the jobs and changes nothing, so one set of comparisons is followed.
JobOrder(tiers, a, b, c) ==
  /\ plug.fn = ""
  /\ plug' = [plug EXCEPT
                !.fn = "jobOrder",
                !.order = [tiers |-> tiers, a |-> a, b |-> b, c |-> c,
                           ab |-> Session_JobOrderFn(tiers, a, b),
                           ba |-> Session_JobOrderFn(tiers, b, a),
                           bc |-> Session_JobOrderFn(tiers, b, c),
                           ac |-> Session_JobOrderFn(tiers, a, c)]]
  /\ ret' = Ret("JobOrderFn", "", "")
  /\ UNCHANGED <<nodeVars, queueVars, concVars, cacheVars, ssnVars, stmtVars,
                 nEvents, fatal>>

OrderNext ==
  \E tiers \in OrderTiers, a \in OrderJobs, b \in OrderJobs, c \in OrderJobs :
    JobOrder(tiers, a, b, c)

SpecOrder == OrderInit /\ [][OrderNext]_vars

(***************************************************************************)
(* SpecConf: loading scheduler configurations of one or two tiers of one   *)
(* or two plugin options each.                                             *)
(***************************************************************************)
MaxTiers == 2

\* A plugin option gives only its name, or its name and JobOrder: false.
ConfOptions ==
  {[Name |-> n, Enabled |-> [k \in EnableKinds |-> IF k = "JobOrder" THEN f ELSE "nil"]] :
     n \in {"priority", "gang", "drf"}, f \in {"nil", "false"}}

ConfTiers == UNION {[1..n -> ConfOptions] : n \in 1..2}

Configurations ==
  [actions : {<<"allocate", "backfill">>},
   tiers : UNION {[1..n -> ConfTiers] : n \in 1..MaxTiers}]

\* The scheduler loads its configuration, once.
LoadSchedulerConf(configuration) ==
  /\ plug.fn = ""
  /\ plug' = [plug EXCEPT !.fn = "loadSchedulerConf",
                          !.conf = [configuration |-> configuration,
                                    loaded |-> loadSchedulerConf(configuration)]]
  /\ ret' = Ret("loadSchedulerConf", "", loadSchedulerConf(configuration).err)
  /\ UNCHANGED <<nodeVars, queueVars, concVars, cacheVars, ssnVars, stmtVars,
                 nEvents, fatal>>

ConfNext == \E configuration \in Configurations : LoadSchedulerConf(configuration)

SpecConf == OrderInit /\ [][ConfNext]_vars

(***************************************************************************)
(* SpecResource: Resource.LessEqual over resources whose dimensions are    *)
(* equal, apart by less than the minimum quantity, apart by exactly the    *)
(* minimum quantity, or far apart, and whose scalar is absent or present.  *)
(***************************************************************************)
Resources ==
  [MilliCPU : {0, 4, 10, 4000},
   Memory : {0, 4000, 10485760, 20971520},
   ScalarResources : {<<>>} \cup [{"scalar1"} -> {0, 1, 10, 11, 1000}]]

\* One comparison; it reads the resources and changes nothing.
ResourceLessEqual(r, rr) ==
  /\ plug.fn = ""
  /\ plug' = [plug EXCEPT !.fn = "LessEqual",
                          !.less = [r |-> r, rr |-> rr,
                                    flag |-> Resource_LessEqual(r, rr)]]
  /\ ret' = Ret("LessEqual", "", "")
  /\ UNCHANGED <<nodeVars, queueVars, concVars, cacheVars, ssnVars, stmtVars,
                 nEvents, fatal>>

ResourceNext == \E r \in Resources, rr \in Resources : ResourceLessEqual(r, rr)

SpecResource == OrderInit /\ [][ResourceNext]_vars

\* C1: on every NodeInfo that has a node object and is Ready, Idle + Used =
\* Allocatable in every resource dimension, whatever NodeInfo calls were made
\* and whether they succeeded or failed.
C1_IdlePlusUsed ==
  (ni.Node # NilNode /\ NodeReady(ni)) => Add(ni.Idle, ni.Used) = ni.Allocatable

\* A Ready node holding a Releasing and a Pipelined task right after a call
\* that failed.
C1_Witness ==
  /\ ni.Node # NilNode /\ NodeReady(ni)
  /\ \E a, b \in DOMAIN ni.Tasks :
       ni.Tasks[a].Status = Releasing /\ ni.Tasks[b].Status = Pipelined
  /\ niRet.err # ""
  /\ ni.Used # EmptyResource

\* C2: Discard after any sequence of successful Allocate, Pipeline and Evict
\* operations restores every node's Idle, Used, Releasing and Pipelined and
\* every task's status to the values they had when the statement was made,
\* also for an evicted task that was not Running.
C2_DiscardRestores ==
  (ret.op = "Discard" /\ ~failed /\ ~fatal)
    => (PreOf(World).vec = pre.vec /\ PreOf(World).status = pre.status)

\* C4: when Allocate or Pipeline returns an error the session is as it was:
\* no task status, no node, no event handler count and no journal entry
\* has changed.
C4_ErrorKeepsSession ==
  [][(ret'.op \in {"Allocate", "Pipeline"} /\ ret'.err # "")
       => UNCHANGED <<ssnTasks, ssnNodes, evAlloc, evDealloc, ops>>]_vars

\* C5: when SchedulerCache.Evict returns an error, the tasks and the nodes
\* of the cache are as they were and no Evictor.Evict goroutine was launched.
C5_EvictErrorKeepsCache ==
  [][(ret'.op = "cache.Evict" /\ ret'.err # "")
       => UNCHANGED <<scTasks, scNodes, inflight>>]_vars

AddTaskErrors == {"already on different node", "already on node", "Selected node NotReady"}

FailedCall(t) ==
  \E i \in DOMAIN inflight : inflight[i].task = t /\ inflight[i].st = "failed"

\* C7: a task whose detached Binder.Bind or Evictor.Evict call failed is
\* eventually put on the resync queue, and neither the failure nor the
\* resync changes a task or a node of the cache.
C7_EffectorFailure ==
  /\ \A t \in TaskIDs : FailedCall(t) ~> (t \in errTasks)
  /\ [][ret'.op \in {"effector.err", "resyncTask"}
          => UNCHANGED <<scTasks, scNodes>>]_vars

\* A task put on the resync queue after its call failed, still Binding or
\* Releasing and still held by its node.
C7_Witness ==
  /\ ret.op = "resyncTask" /\ ret.task \in errTasks
  /\ ret.task \in DOMAIN scTasks
  /\ scTasks[ret.task].Status \in {Binding, Releasing}
  /\ \E n \in DOMAIN scNodes : ret.task \in DOMAIN scNodes[n].Tasks

\* What the session sees of its snapshot, and the cache's own objects.
SsnViewOf(w) ==
  [nodes |-> [n \in DOMAIN w.ssnNodes |-> SsnNode(w, n)], tasks |-> w.ssnTasks]

CacheViewOf(w) == [nodes |-> w.scNodes, tasks |-> w.scTasks]

\* The cache call that Commit makes for a journaled operation.
CacheCall(w, op, envOK) ==
  IF op.name = "allocate"
    THEN SchedulerCache_Bind(w, op.task, SsnTask(w, op.task).NodeName)
    ELSE SchedulerCache_Evict(w, op.task, envOK)

\* C8: while a session is open, no informer event and no Bind or Evict of
\* the cache changes the nodes and tasks of the snapshot, and no Allocate,
\* Pipeline, Evict or Discard of a statement changes the nodes and tasks of
\* the cache.
C8_SnapshotIsolation ==
  [][(ssnOpen /\ ssnOpen') =>
       /\ ret'.op \in {"DeletePod", "UpdateNode"}
            => SsnViewOf(World)' = SsnViewOf(World)
       /\ ret'.op \in {"Allocate", "Pipeline", "Evict", "Discard"}
            => CacheViewOf(World)' = CacheViewOf(World)
       /\ (ret'.call # "" /\ cidx < Len(ops))
            => \A envOK \in BOOLEAN :
                 SsnViewOf(CacheCall(World, ops[cidx + 1], envOK).w) = SsnViewOf(World)]_vars

\* A pod deleted from the cache during a session whose snapshot still holds
\* it, with a statement under way that moved the session's node away from
\* the cache's.
C8_Witness ==
  /\ ssnOpen /\ ret.op = "DeletePod"
  /\ ret.task \notin DOMAIN scTasks
  /\ HoldersOf(World, ret.task) # {}
  /\ ops # <<>>
  /\ \E n \in DOMAIN ssnNodes : SsnNode(World, n).Idle # scNodes[n].Idle

\* The allowed transitions of the task lifecycle table.
Lifecycle ==
  {<<Pending, Allocated>>, <<Allocated, Binding>>, <<Binding, Bound>>,
   <<Bound, Running>>, <<Running, Succeeded>>, <<Running, Failed>>,
   <<Running, Releasing>>, <<Allocated, Pipelined>>, <<Pipelined, Pending>>,
   <<Allocated, Pending>>, <<Releasing, Pending>>}

\* The tasks whose status a step changed.
Moved(old, new) ==
  {t \in DOMAIN old \cap DOMAIN new : old[t].Status # new[t].Status}

\* C10: every status change made by a Statement operation, by Commit, by
\* Discard and by the cache's Bind and Evict is a transition of the
\* lifecycle table; no other transition occurs.
C10_Lifecycle ==
  [][/\ \A t \in Moved(ssnTasks, ssnTasks') :
          <<ssnTasks[t].Status, ssnTasks'[t].Status>> \in Lifecycle
     /\ \A t \in Moved(scTasks, scTasks') :
          <<scTasks[t].Status, scTasks'[t].Status>> \in Lifecycle]_vars

\* Whether the statement journaled an allocate or a pipeline of task t.
Placed(t) ==
  \E i \in DOMAIN ops : ops[i].task = t /\ ops[i].name \in {"allocate", "pipeline"}

\* The status changes an operation leaves on a task of the session.
SsnMoves(op, t) ==
  CASE op = "Allocate" -> {<<Pending, Allocated>>}
    [] op = "Pipeline" -> {<<Pending, Pipelined>>}
    [] op = "Evict" -> {<<s, Releasing>> : s \in TaskStatus}
    [] op = "Discard" ->
         IF Placed(t) THEN {<<s, Pending>> : s \in {Allocated, Pipelined, Releasing}}
         ELSE {<<Releasing, Running>>}
    [] op = "commit.allocate" -> {<<s, Binding>> : s \in TaskStatus}
    [] op = "commit.evict" -> {<<s, Running>> : s \in TaskStatus}
    [] OTHER -> {}

\* The status changes an operation leaves on a task of the cache.
CacheMoves(op) ==
  CASE op = "commit.allocate" -> {<<Pending, Binding>>}
    [] op = "commit.evict" -> {<<s, Releasing>> : s \in TaskStatus}
    [] OTHER -> {}

\* C10 (the transitions of the code): every status change is the one its
\* operation writes:
\* Allocate Pending -> Allocated; Pipeline Pending -> Pipelined; Evict and
\* the cache's Evict any status -> Releasing; the cache's Bind Pending ->
\* Binding and the commit-time allocate any status -> Binding in the
\* session; unallocate and unpipeline -> Pending; unevict -> Running.
C10_CodeTransitions ==
  [][/\ \A t \in Moved(ssnTasks, ssnTasks') :
          <<ssnTasks[t].Status, ssnTasks'[t].Status>> \in SsnMoves(ret'.op, t)
     /\ \A t \in Moved(scTasks, scTasks') :
          <<scTasks[t].Status, scTasks'[t].Status>> \in CacheMoves(ret'.op)]_vars

\* A Discard that put an evicted Running task back to Running and a
\* pipelined task back to Pending.
C10_Witness ==
  /\ ret.op = "Discard" /\ ~fatal
  /\ \E i, j \in DOMAIN ops :
       /\ ops[i].name = "evict" /\ ~Placed(ops[i].task)
       /\ ops[i].task \in DOMAIN ssnTasks
       /\ pre.status[ops[i].task] = Running
       /\ ssnTasks[ops[i].task].Status = Running
       /\ ops[j].name = "pipeline"
       /\ ssnTasks[ops[j].task].Status = Pending

\* Whether the statement's commit launched a Binder.Bind for a task of job j.
BindIssued(j) ==
  \E i \in (pre.launched + 1)..Len(inflight) :
    inflight[i].kind = "bind" /\ JobOf(inflight[i].task) = j

\* C3: gang safety. After a cycle of the allocate action every job of the
\* session has ReadyTaskNum >= MinAvailable, or no Bind was issued for any
\* of its tasks.
C3_GangSafety ==
  ret.op = "allocate"
    => \A j \in ssnJobs : gangJobReadyFn(ssnTasks, j) \/ ~BindIssued(j)

\* C3 (gang safety counting Pipelined tasks): after a cycle every job of the
\* session has ReadyTaskNum + the number of its Pipelined tasks >=
\* MinAvailable, or no Bind was issued for any of its tasks.
C3_GangPipelined ==
  ret.op = "allocate"
    => \A j \in ssnJobs : JobPipelined(ssnTasks, j) \/ ~BindIssued(j)

\* A committed job with a Bind issued, a Pipelined task, and fewer ready
\* tasks than MinAvailable.
C3_Witness ==
  /\ ret.op = "allocate" /\ ret.call = "Commit"
  /\ \E j \in ssnJobs :
       /\ BindIssued(j)
       /\ ~JobReady(ssnTasks, j)
       /\ TaskStatusIndex(ssnTasks, j, Pipelined) # {}

\* C9: under every interleaving of Bind, Evict, processCleanupJob and
\* Snapshot, what a Snapshot call returns is the snapshot of the cache as
\* it was between two whole operations, at a point between the call and
\* its return: it holds no intermediate state of a Bind or an Evict.
C9_SnapshotAtomic ==
  pc["snap"] = "done" => \E q \in points : snap = Snapshot(q)

\* A Snapshot that returned a Binding task while a Bind or Evict stands
\* between its two steps and the cleanup worker waits for the mutex.
C9_Witness ==
  /\ pc["snap"] = "done" /\ Cardinality(points) >= 2
  /\ \E t \in DOMAIN snap.Tasks : snap.Tasks[t].Status = Binding
  /\ pc["sched"] = "node" /\ pc["cleanup"] = "lock"

\* C11: a NodeInfo with a node object has Used <= Allocatable in every
\* dimension, or is NotReady with reason OutOfSync, after every sequence of
\* NodeInfo calls, also when it was created with a nil node and was given
\* tasks before SetNode.
C11_UsedWithinAllocatable ==
  ni.Node # NilNode
    => \/ LessEqual(ni.Used, ni.Allocatable)
       \/ ni.State = [Phase |-> NotReady, Reason |-> "OutOfSync"]

\* The sum of the requests of the task copies on a node that satisfy a status
\* test.
RECURSIVE SumResreq(_, _, _)
SumResreq(tasks, keys, statuses) ==
  IF keys = {} THEN EmptyResource
  ELSE LET k == CHOOSE x \in keys : TRUE
           rest == SumResreq(tasks, keys \ {k}, statuses)
       IN IF tasks[k].Status \in statuses THEN Add(tasks[k].Resreq, rest) ELSE rest

\* C12: on a NodeInfo with a node object, Releasing is the sum of the
\* requests of the Releasing task copies, Pipelined that of the Pipelined
\* copies and Used that of all copies that are not Pipelined; and adding a
\* task and then removing it gives back the Used there was and a Tasks map
\* without the task.
C12_VectorsAreSums ==
  ni.Node # NilNode
    => /\ ni.Releasing = SumResreq(ni.Tasks, DOMAIN ni.Tasks, {Releasing})
       /\ ni.Pipelined = SumResreq(ni.Tasks, DOMAIN ni.Tasks, {Pipelined})
       /\ ni.Used = SumResreq(ni.Tasks, DOMAIN ni.Tasks, TaskStatus \ {Pipelined})
       /\ \A t \in NodeTasks :
            (t \in DOMAIN pool /\ AddTask(ni, pool[t]).err = "")
              => LET added == AddTask(ni, pool[t])
                     removed == RemoveTask(added.ni, added.task)
                 IN /\ removed.err = ""
                    /\ removed.ni.Used = ni.Used
                    /\ t \notin DOMAIN removed.ni.Tasks

\* A node with a node object that holds a Releasing copy, just after a
\* Pipelined copy was removed from it, and to which a task can be added.
C12_Witness ==
  /\ ni.Node # NilNode
  /\ \E a \in DOMAIN ni.Tasks : ni.Tasks[a].Status = Releasing
  /\ niRet.op = "RemoveTask" /\ niRet.err = ""
  /\ \E t \in DOMAIN pool :
       /\ pool[t].Status = Pipelined
       /\ AddTask(ni, pool[t]).err = ""

\* C17: when AddTask or RemoveTask returns an error, the node (Idle, Used,
\* Releasing, Pipelined, Tasks) and the task (NodeName, Status) are as they
\* were before the call.
C17_AddRemoveAtomic ==
  [][(niRet'.op \in {"AddTask", "RemoveTask"} /\ niRet'.err # "")
       => UNCHANGED <<ni, pool>>]_vars

\* An AddTask that was refused because the request does not fit Idle, on a
\* node with a node object that holds another task.
C17_Witness ==
  /\ niRet.op = "AddTask" /\ niRet.err = "Selected node NotReady"
  /\ ni.Node # NilNode /\ ni.Tasks # NoTasks
  /\ pool[niRet.task].NodeName = NoNodeName

\* Whether the cache has task t in the given status.
CacheHas(t, status) == t \in DOMAIN scTasks /\ scTasks[t].Status = status

\* C13: starting from a session whose snapshot equals the cache (no informer
\* event came in), after Commit the cache and the session agree on every
\* task of an allocate or evict operation, which is Binding, resp.
\* Releasing, on the same node in both, and on Idle, Used and Releasing of
\* every node that holds no Pipelined task.
C13_CommitAgrees ==
  (ssnOpen /\ stmt = "committed" /\ nEvents = 0 /\ ~fatal)
    => /\ \A i \in DOMAIN ops :
            ops[i].name \in {"allocate", "evict"}
              => LET t == ops[i].task
                     status == IF ops[i].name = "allocate" THEN Binding ELSE Releasing
                 IN /\ CacheHas(t, status)
                    /\ SsnTask(World, t).Status = status
                    /\ SsnTask(World, t).NodeName = scTasks[t].NodeName
       /\ \A n \in DOMAIN ssnNodes :
            (\A t \in DOMAIN SsnNode(World, n).Tasks :
               SsnNode(World, n).Tasks[t].Status # Pipelined)
              => /\ SsnNode(World, n).Idle = scNodes[n].Idle
                 /\ SsnNode(World, n).Used = scNodes[n].Used
                 /\ SsnNode(World, n).Releasing = scNodes[n].Releasing

\* C14: when an operation fails during Commit, the session and the cache
\* are consistent for its task afterwards: the session does not show the
\* task Allocated on a node when the cache did not apply the bind, nor
\* Releasing when the cache did not apply the eviction.
C14_CommitErrorConsistent ==
  [][\A t \in TaskIDs :
       (ret'.op \in {"commit.allocate", "commit.evict"} /\ ret'.task = t
          /\ ret'.err # "" /\ ~fatal')
         => /\ (ret'.op = "commit.allocate" /\ ~CacheHas(t, Binding)')
                 => ~(SsnTask(World, t).Status = Allocated /\ HoldersOf(World, t) # {})'
            /\ (ret'.op = "commit.evict" /\ ~CacheHas(t, Releasing)')
                 => (SsnTask(World, t).Status # Releasing)']_vars

\* C15: Commit goes through its journal in order, one operation at a time:
\* an allocate calls cache.BindVolumes and then, unless that failed,
\* cache.Bind, and when both succeed the task is Binding in the session and
\* in the cache and one Binder.Bind goroutine was started; an evict calls
\* cache.Evict once; a pipeline calls nothing and changes nothing, the task
\* keeping its status with no Binder.Bind started for it.
C15_CommitFollowsJournal ==
  [][(ret'.op \in {"commit.allocate", "commit.evict", "commit.pipeline"})
       => /\ cidx' = cidx + 1
          /\ ret'.op = "commit." \o ops[cidx'].name
          /\ ret'.task = ops[cidx'].task
          /\ ops' = ops
          /\ ret'.op = "commit.allocate"
               => /\ ret'.calls \in {<<"BindVolumes">>, <<"BindVolumes", "Bind">>}
                  /\ (ret'.calls = <<"BindVolumes">>) <=> (ret'.err = "BindVolumes")
                  /\ ret'.err = ""
                       => /\ ssnTasks'[ret'.task].Status = Binding
                          /\ ret'.task \in DOMAIN scTasks'
                          /\ scTasks'[ret'.task].Status = Binding
                          /\ inflight' = Append(inflight,
                               Goroutine("bind", ret'.task, ops[cidx'].host))
                  /\ ret'.err # "" => inflight' = inflight
          /\ ret'.op = "commit.evict" => ret'.calls = <<"Evict">>
          /\ ret'.op = "commit.pipeline"
               => /\ ret'.calls = <<>>
                  /\ UNCHANGED <<cacheVars, ssnTasks, ssnNodes>>
                  /\ \A i \in (pre.launched + 1)..Len(inflight') :
                       inflight'[i].task # ret'.task]_vars

\* Commit has bound an allocated task and gone past a pipeline operation,
\* whose task is still Pipelined.
C15_Witness ==
  /\ ret.op = "commit.pipeline" /\ stmt = "committed"
  /\ \E i \in DOMAIN ops : ops[i].name = "allocate" /\ CacheHas(ops[i].task, Binding)
  /\ ssnTasks[ret.task].Status = Pipelined
  /\ Len(inflight) = pre.launched + 1

\* C16: a statement that is discarded makes no cache call: none of its
\* tentative Allocate, Pipeline and Evict operations and no Discard changes
\* the cache's tasks, nodes, PodGroups, effector goroutines or resync queue.
C16_DiscardKeepsCache ==
  [][(ret'.op \in {"Allocate", "Pipeline", "Evict", "Discard"})
       => ret'.calls = <<>> /\ UNCHANGED cacheVars]_vars

\* A Discard of a statement that had tentatively evicted one task and placed
\* another, with the session back at its task statuses.
C16_Witness ==
  /\ ret.op = "Discard" /\ ~fatal
  /\ \E i, j \in DOMAIN ops :
       /\ ops[i].name = "evict" /\ ops[j].name \in {"allocate", "pipeline"}
       /\ ops[j].task \in DOMAIN ssnTasks
       /\ ssnTasks[ops[j].task].Status = Pending
       /\ CacheHas(ops[j].task, Pending)
  /\ inflight = <<>>

\* C18: Snapshot returns exactly a clone of every cache node that is Ready
\* and of no other node, a clone of every cache queue, and a clone of those
\* cache jobs, with their tasks, that have a PodGroup or a PDB and whose
\* queue is one of the cache's queues.
C18_SnapshotContents ==
  ret.op = "Snapshot"
    => /\ DOMAIN snap.Nodes = {n \in DOMAIN scNodes : scNodes[n].State.Phase = Ready}
       /\ \A n \in DOMAIN snap.Nodes :
            snap.Nodes[n] = [shared |-> FALSE, obj |-> Clone(scNodes[n])]
       /\ snap.Queues = scQueues
       /\ snap.Jobs = {j \in DOMAIN podGroup :
                         /\ (podGroup[j] # "nil" \/ pdb[j])
                         /\ QueueOf(j) \in scQueues}
       /\ DOMAIN snap.Tasks = {t \in DOMAIN scTasks : JobOf(t) \in snap.Jobs}
       /\ \A t \in DOMAIN snap.Tasks : snap.Tasks[t] = scTasks[t]

\* A Snapshot of a cache with a node that is not Ready, which it leaves out,
\* a job with only a PDB, which it takes, and a job whose queue is missing,
\* which it leaves out.
C18_Witness ==
  /\ ret.op = "Snapshot"
  /\ \E n \in DOMAIN scNodes : ~NodeReady(scNodes[n]) /\ n \notin DOMAIN snap.Nodes
  /\ \E n \in DOMAIN scNodes : n \in DOMAIN snap.Nodes
  /\ podGroup["j2"] = "nil" /\ pdb["j2"] /\ "j2" \in snap.Jobs
  /\ "q1" \notin scQueues /\ "j1" \notin snap.Jobs

\* C19: the gang plugin's PreemptableFn / ReclaimableFn never pushes a job
\* below MinAvailable ready tasks.  Over a sequence of calls in which the
\* victims of each call are evicted with Statement.Evict before the next:
\* a job that had at least MinAvailable ready tasks when a call was made, or
\* when the sequence began, still has as many while and after the victims
\* are evicted; and a job that had at most MinAvailable ready tasks when a
\* call was made has no task among the victims of that call.
C19_GangKeepsMinAvailable ==
  plug.fn = "gang" =>
    \A j \in JobIDs :
      LET atStart == Cardinality({t \in DOMAIN pre.status :
                        /\ JobOf(t) = j
                        /\ pre.status[t] \in {Allocated, Binding, Bound, Running,
                                              Succeeded}})
      IN /\ plug.ready[j] >= plug.MinAvailable[j]
              => ReadyTaskNum(ssnTasks, j) >= plug.MinAvailable[j]
         /\ atStart >= plug.MinAvailable[j]
              => ReadyTaskNum(ssnTasks, j) >= plug.MinAvailable[j]
         /\ plug.ready[j] <= plug.MinAvailable[j]
              => \A i \in 1..Len(plug.victims) : JobOf(plug.victims[i]) # j

\* C19 witness: a first call took a victim from a job above MinAvailable and
\* the victim was evicted, which left the job at MinAvailable; the second
\* call, handed a ready task of that job, returned no victim.
C19_Witness ==
  /\ plug.fn = "gang" /\ plug.calls = 2 /\ plug.toEvict = <<>>
  /\ Len(ops) = 1 /\ ops[1].name = "evict"
  /\ plug.victims = <<>>
  /\ \E i \in 1..Len(plug.preemptees) :
       LET c == plug.preemptees[i]
       IN /\ JobOf(c) = JobOf(ops[1].task)
          /\ ssnTasks[c].Status = Running
          /\ pre.status[ops[1].task] = Running
          /\ ReadyTaskNum(ssnTasks, JobOf(c)) = plug.MinAvailable[JobOf(c)]

\* C20: the priority plugin's PreemptableFn returns exactly the candidates,
\* in the order of the candidate list, that are strictly lower than the
\* preemptor: by the jobs' Priority for a candidate of another job, by the
\* tasks' Priority for a candidate of the preemptor's job.  A candidate of
\* equal priority is never a victim, and no two tasks are each other's
\* victims.
C20_PriorityVictims ==
  LET Lower(c, p) ==
        IF JobOf(c) = JobOf(p)
          THEN plug.TaskPriority[c] < plug.TaskPriority[p]
          ELSE plug.JobPriority[JobOf(c)] < plug.JobPriority[JobOf(p)]
      Equal(c, p) ==
        IF JobOf(c) = JobOf(p)
          THEN plug.TaskPriority[c] = plug.TaskPriority[p]
          ELSE plug.JobPriority[JobOf(c)] = plug.JobPriority[JobOf(p)]
      LowerThanPreemptor(c) == Lower(c, plug.preemptor)
      Victims(p, cands) ==
        priorityPreemptableFn(plug.JobPriority, plug.TaskPriority, p, cands)
  IN /\ plug.fn = "priority" =>
          /\ plug.victims = SelectSeq(plug.preemptees, LowerThanPreemptor)
          /\ \A i \in 1..Len(plug.victims) :
               ~Equal(plug.victims[i], plug.preemptor)
     /\ \A a \in TaskIDs, b \in TaskIDs :
          ~(Victims(a, <<b>>) = <<b>> /\ Victims(b, <<a>>) = <<a>>)

\* C20 witness: of a candidate of the preemptor's job and one of another job,
\* listed with a candidate of equal priority, the call returned two victims
\* and left the third candidate out.
C20_Witness ==
  /\ plug.fn = "priority"
  /\ Len(plug.preemptees) = 3 /\ Len(plug.victims) = 2
  /\ \E i \in 1..3 :
       /\ JobOf(plug.preemptees[i]) = JobOf(plug.preemptor)
       /\ plug.preemptees[i] # plug.preemptor
       /\ \E k \in 1..2 : plug.victims[k] = plug.preemptees[i]
  /\ \E i \in 1..3 :
       /\ JobOf(plug.preemptees[i]) # JobOf(plug.preemptor)
       /\ \E k \in 1..2 : plug.victims[k] = plug.preemptees[i]
  /\ plug.victims[1] # plug.victims[2]

\* C21: with the priority plugin before the gang plugin, in one tier or in
\* consecutive tiers, the session's job order is lexicographic: the job of
\* higher Priority orders first; of two jobs of equal Priority the one that
\* is not Ready orders before the one that is; two jobs equal in both compare
\* as 0.  The comparison is antisymmetric and transitive.
C21_JobOrderLexicographic ==
  plug.fn = "jobOrder" =>
    LET o == plug.order
        aReady == o.a.ReadyTaskNum >= o.a.MinAvailable
        bReady == o.b.ReadyTaskNum >= o.b.MinAvailable
    IN /\ o.a.Priority > o.b.Priority => o.ab = -1
       /\ o.a.Priority < o.b.Priority => o.ab = 1
       /\ (o.a.Priority = o.b.Priority /\ ~aReady /\ bReady) => o.ab = -1
       /\ (o.a.Priority = o.b.Priority /\ aReady /\ ~bReady) => o.ab = 1
       /\ (o.a.Priority = o.b.Priority /\ aReady = bReady) => o.ab = 0
       /\ o.ab = 0 - o.ba
       /\ (o.ab <= 0 /\ o.bc <= 0) => o.ac <= 0
       /\ (o.ab <= 0 /\ o.bc <= 0 /\ (o.ab < 0 \/ o.bc < 0)) => o.ac < 0

\* C21 witness: of three jobs of equal Priority, a and b not Ready and c
\* Ready: a and b compare as 0 and both order before c.  The plugins are in
\* consecutive tiers.
C21_Witness ==
  /\ plug.fn = "jobOrder"
  /\ Len(plug.order.tiers) = 2
  /\ plug.order.a.Priority = plug.order.c.Priority
  /\ plug.order.a.ReadyTaskNum < plug.order.a.MinAvailable
  /\ plug.order.c.ReadyTaskNum >= plug.order.c.MinAvailable
  /\ plug.order.ab = 0 /\ plug.order.bc = -1 /\ plug.order.ac = -1

\* C22: a configuration that loads yields its tiers in the order written and
\* the plugin options of each tier in the order written, and every plugin
\* option that gives only its name has all nine enable flags set to true.
C22_ConfDefaults ==
  (plug.fn = "loadSchedulerConf" /\ plug.conf.loaded.err = "") =>
    LET written == plug.conf.configuration.tiers
        tiers == plug.conf.loaded.tiers
    IN /\ Len(tiers) = Len(written)
       /\ \A i \in 1..Len(written) :
            /\ Len(tiers[i]) = Len(written[i])
            /\ \A j \in 1..Len(written[i]) :
                 /\ tiers[i][j].Name = written[i][j].Name
                 /\ (\A k \in EnableKinds : written[i][j].Enabled[k] = "nil")
                      => /\ Cardinality(DOMAIN tiers[i][j].Enabled) = 9
                         /\ \A k \in DOMAIN tiers[i][j].Enabled :
                              tiers[i][j].Enabled[k] = "true"

\* C22 witness: a loaded configuration of two tiers whose first tier lists
\* two plugins by name only, priority before gang, and whose second tier
\* has a plugin option that gives JobOrder: false.
C22_Witness ==
  /\ plug.fn = "loadSchedulerConf" /\ plug.conf.loaded.err = ""
  /\ Len(plug.conf.loaded.tiers) = 2
  /\ Len(plug.conf.loaded.tiers[1]) = 2
  /\ plug.conf.loaded.tiers[1][1].Name = "priority"
  /\ plug.conf.loaded.tiers[1][2].Name = "gang"
  /\ \A j \in 1..2, k \in EnableKinds :
       /\ plug.conf.configuration.tiers[1][j].Enabled[k] = "nil"
       /\ plug.conf.loaded.tiers[1][j].Enabled[k] = "true"
  /\ plug.conf.configuration.tiers[2][1].Enabled["JobOrder"] = "false"
  /\ plug.conf.loaded.tiers[2][1].Enabled["JobOrder"] = "false"

\* The quantity of a dimension of a resource; a scalar it lacks counts as 0.
C23_Quantity(r, dim) ==
  IF dim = "MilliCPU" THEN r.MilliCPU
  ELSE IF dim = "Memory" THEN r.Memory
  ELSE IF dim \in DOMAIN r.ScalarResources THEN r.ScalarResources[dim]
  ELSE 0

C24_DiscardRetraces ==
  [][/\ (ret'.op = "Discard" /\ ~failed /\ ~fatal')
          => /\ \A k \in 1..Len(ops) :
                  \E m \in 1..Len(pre.trail) :
                    NodesOf(DiscardFrom(World, SubSeq(ops, k, Len(ops)),
                                        Len(ops) - k + 1)) = pre.trail[m]
             /\ NodesOf(World') = pre.trail[1]
     /\ \A i \in 1..MaxOps :
          (cidx' = i /\ cidx = i - 1)
            => (ret'.op = "commit." \o ops[i].name /\ ret'.task = ops[i].task)
    ]_vars

\* C25: Statement.Evict on a task whose job is not in the session changes
\* nothing in the session: no node vector, no task status, no DeallocateFunc
\* call, no journal entry; and no later Commit step issues cache.Evict for a
\* task whose job is not in the session.
C25_EvictUnknownJobNoOp ==
  [][\A t \in TaskIDs :
       (ret'.task = t /\ JobOf(t) \notin ssnJobs /\ ~fatal')
         => /\ ret'.op = "Evict"
                 => /\ PreOf(World').vec = PreOf(World).vec
                    /\ PreOf(World').status = PreOf(World).status
                    /\ evDealloc' = evDealloc
                    /\ ops' = ops
            /\ ret'.op = "commit.evict"
                 => \A i \in 1..Len(ret'.calls) : ret'.calls[i] # "Evict"
    ]_vars

\* C26: the re-addition in NodeInfo.UpdateTask never fails once the removal
\* has succeeded, for every status change that Statement.Evict, unevict and
\* SchedulerCache.Evict make through it, so glog.Fatalf is never reached.
C26_UpdateTaskNeverFatal == ~fatal


\* C27: every job with a PodGroup that Snapshot returns has, in the snapshot,
\* the Value of the cache's priority class its PodGroup names when the cache
\* has that class at that moment, and the cache's defaultPriority otherwise;
\* this holds for each Snapshot, so after the classes changed as well.
C27_SnapshotPriority ==
  ret.op = "Snapshot" =>
    \A j \in snap.Jobs :
      podGroup[j] # "nil" =>
        snap.Priority[j] =
          IF prio.PriorityClassName[j] \in DOMAIN prio.PriorityClasses
            THEN prio.PriorityClasses[prio.PriorityClassName[j]]
            ELSE prio.defaultPriority

\* A Snapshot taken after the class of j1 was updated to 20 gives j1 that
\* Priority.
C27_Witness ==
  /\ ret.op = "Snapshot" /\ nEvents = 1 /\ "j1" \in snap.Jobs
  /\ podGroup["j1"] # "nil"
  /\ prio.PriorityClasses = [c \in {"high"} |-> 20]
  /\ snap.Priority["j1"] = 20 /\ prio.defaultPriority = 5

\* The journaled operations of the statement that are one of names on task t.
JournaledOn(names, t) ==
  Cardinality({i \in 1..Len(ops) : ops[i].name \in names /\ ops[i].task = t})

\* What one step of a statement adds to the calls of the handlers.
HandlerCallsOfStep ==
  \A t \in TaskIDs :
    /\ (ret'.task = t /\ ret'.op \in {"Allocate", "Pipeline"} /\ ret'.err = "")
         => /\ evAlloc' = [evAlloc EXCEPT ![t] = @ + 1]
            /\ evDealloc' = evDealloc
    /\ (ret'.task = t /\ ret'.op \in {"Allocate", "Pipeline"} /\ ret'.err # "")
         => /\ evAlloc' = evAlloc
            /\ evDealloc' = evDealloc
    /\ (ret'.task = t /\ ret'.op = "Evict")
         => /\ evDealloc' = [evDealloc EXCEPT ![t] = @ + 1]
            /\ evAlloc' = evAlloc
    /\ ret'.op = "Discard"
         => /\ evAlloc'[t] = evAlloc[t] + JournaledOn({"evict"}, t)
            /\ evDealloc'[t] = evDealloc[t] + JournaledOn({"allocate", "pipeline"}, t)
    /\ (ret'.task = t /\ ret'.op = "commit.evict" /\ ret'.err # "")
         => /\ evAlloc' = [evAlloc EXCEPT ![t] = @ + 1]
            /\ evDealloc' = evDealloc

\* C28: every tentative operation of a statement calls the handlers exactly
\* once: AllocateFunc for a successful Allocate or Pipeline and for each
\* unevict (of Discard, or of a Commit whose cache Evict failed),
\* DeallocateFunc for each Evict and for each unallocate and unpipeline of
\* Discard; an Allocate or Pipeline that returns an error calls neither.
C28_HandlersOncePerOperation == [][HandlerCallsOfStep]_vars


\* A job of the cache that is terminated.
TerminatedInJobs(j) == j \in DOMAIN podGroup /\ JobTerminated(World, j)

\* C29: the worker of the deleted-jobs queue holds the cache lock when it
\* checks the job it took from the queue; a job that is terminated at that
\* moment is not in the cache's Jobs afterwards, any other job stays in Jobs
\* with the rest of Jobs as it was and is on the queue again; and under fair
\* scheduling every terminated job of the cache is eventually removed.
C29_CleanupRechecks ==
  /\ [][(pc["cleanup"] = "check" /\ pc'["cleanup"] = "idle")
          => /\ mutex = "cleanup"
             /\ IF arg.job \notin DOMAIN podGroup \/ JobTerminated(World, arg.job)
                  THEN arg.job \notin DOMAIN podGroup'
                  ELSE podGroup' = podGroup /\ arg.job \in deletedJobs']_vars
  /\ \A j \in JobIDs : TerminatedInJobs(j) ~> (j \notin DOMAIN podGroup)

\* Job j2 had a PodGroup and a task, both were deleted, and the worker has
\* removed the job from the cache.
C29_Witness ==
  /\ ret.op = "processCleanupJob" /\ ret.task = "j2"
  /\ nEvents = 2 /\ "t3" \notin DOMAIN scTasks
  /\ "j2" \notin DOMAIN podGroup /\ "j1" \in DOMAIN podGroup
  /\ "j1" \in deletedJobs


\* The worker has just synchronised task t.
Resynchronised(t) == ret = Ret("processResyncTask", t, "")

\* C30: a task leaves the resync queue only into the hands of the worker;
\* when the worker's syncTask fails the task is on the queue again, and when
\* it succeeds the cache's task is the one made from the pod; under fair
\* scheduling, a task on the queue whose syncTask does not fail for ever is
\* eventually synchronised.
C30_ResyncRetries ==
  /\ [][\A t \in TaskIDs :
          (t \in errTasks /\ t \notin errTasks')
            => (pc["resync"] = "idle" /\ pc'["resync"] = "sync" /\ arg'.resync = t)]_vars
  /\ [][(pc["resync"] = "sync" /\ pc'["resync"] = "idle")
          => /\ ret'.err # "" => arg.resync \in errTasks'
             /\ ret'.err = "" => scTasks'[arg.resync] = PodOf(scTasks[arg.resync])]_vars
  /\ \A t \in TaskIDs : (t \in errTasks) ~> Resynchronised(t)

\* Task t1, whose Binder.Bind failed, is pending again after a syncTask that
\* failed and one that succeeded, and is off the queue.
C30_Witness ==
  /\ Resynchronised("t1") /\ "t1" \notin errTasks /\ arg.requeues > 0
  /\ scTasks["t1"].Status = Pending /\ scTasks["t1"].NodeName = NoNodeName
  /\ \A n \in DOMAIN scNodes : "t1" \notin DOMAIN scNodes[n].Tasks


\* A Binder.Bind or Evictor.Evict call of task t is in progress.
CallInProgress(t) ==
  \E i \in DOMAIN inflight : inflight[i].task = t /\ inflight[i].st = "running"

\* C31 (as stated): no Binder.Bind or Evictor.Evict call is in progress
\* while the Bind or Evict that launched it still holds the mutex.
C31_NoCallUnderLock ==
  ~(mutex = "sched" /\ pc["sched"] = "return" /\ CallInProgress(arg.task))

\* C31 (what Bind and Evict do): the goroutine that makes the call is
\* launched with the mutex held and the mutex is released by the deferred
\* Unlock of the return, which waits for no call; no goroutine takes the
\* mutex, and a Snapshot that waits for the mutex gets it even when the
\* calls never return.
C31_CallNeverKeepsLock ==
  /\ [][Len(inflight') > Len(inflight)
          => (mutex = "sched" /\ mutex' = "sched" /\ pc'["sched"] = "return")]_vars
  /\ [](mutex \in {"", "sched", "snap"})
  /\ (pc["snap"] = "lock") ~> (pc["snap"] = "nodes")

\* A Snapshot has taken the mutex while the Binder call of t1 and the
\* Evictor call of another task are in progress.
C31_Witness ==
  /\ mutex = "snap" /\ pc["snap"] = "nodes"
  /\ CallInProgress("t1")
  /\ \E i \in DOMAIN inflight : inflight[i].kind = "evict" /\ inflight[i].st = "running"


\* The conditions published for job j at the last session close.
PublishedFor(conditions, j) ==
  {i \in DOMAIN conditions : conditions[i].job = j}

\* C32: when a session is closed the gang plugin hands to UpdateJobCondition
\* one Unschedulable condition (status True, reason NotEnoughResources,
\* transition id the session UID) for each job of the session whose
\* ReadyTaskNum is below its MinAvailable, and none for any other job.
C32_UnschedulableAtClose ==
  [][ret'.op = "CloseSession"
       => \A j \in JobIDs :
            /\ Cardinality(PublishedFor(plug'.conditions, j))
                 = IF j \in ssnJobs /\ ReadyTaskNum(ssnTasks, j) < MinAvailable(j)
                     THEN 1 ELSE 0
            /\ \A i \in PublishedFor(plug'.conditions, j) :
                 plug'.conditions[i] =
                   [job |-> j, Type |-> "Unschedulable", Status |-> "True",
                    Reason |-> "NotEnoughResources", TransitionID |-> plug.ssnUID]]_vars

\* A session was closed with one job ready and the other not: the only
\* condition published is that of j2.
C32_Witness ==
  /\ ret.op = "CloseSession" /\ plug.fn = "gang.OnSessionClose"
  /\ Len(plug.conditions) = 1 /\ plug.conditions[1].job = "j2"
  /\ podGroup["j2"] # "nil" /\ plug.conditions[1].TransitionID = "ssn-b"


\* The tasks whose allocate or pipeline the last Discard has undone.
UndonePlacements ==
  {ops[i].task : i \in {k \in DOMAIN ops : ops[k].name \in {"allocate", "pipeline"}}}

\* C33: after Discard, a task whose allocate or pipeline was undone and that
\* was Pending when the statement was made has an empty NodeName again, and
\* Statement.Allocate of it succeeds on every node of the session whose
\* Idle covers its Resreq.
C33_DiscardRestoresNodeName ==
  (ret.op = "Discard" /\ ~fatal)
    => \A t \in UndonePlacements \cap DOMAIN ssnTasks :
         pre.status[t] = Pending
           => /\ ssnTasks[t].NodeName = NoNodeName
              /\ \A h \in DOMAIN ssnNodes :
                   (SsnNode(World, h).Node # NilNode
                      /\ LessEqual(Resreq(t), SsnNode(World, h).Idle))
                     => Statement_Allocate(World, t, h, TRUE).err = ""


\* C34: after Discard, for every task the number of AllocateFunc events
\* delivered since the statement was made equals the number of
\* DeallocateFunc events, so a plugin that adds Resreq on the one and
\* subtracts it on the other is back at the share it had.
C34_HandlersBalanced ==
  ret.op = "Discard" => \A t \in TaskIDs : evAlloc[t] = evDealloc[t]

\* A statement that evicted one task and placed another was discarded, and
\* each of the two tasks has had both events.
C34_Witness ==
  /\ ret.op = "Discard" /\ ~fatal
  /\ \E i, k \in DOMAIN ops :
       /\ ops[i].name = "evict" /\ ops[k].name \in {"allocate", "pipeline"}
       /\ ops[i].task # ops[k].task
       /\ evAlloc[ops[i].task] = 1 /\ evDealloc[ops[i].task] = 1
       /\ evAlloc[ops[k].task] = 1 /\ evDealloc[ops[k].task] = 1


NonNegative(r) == \A d \in Dims : r[d] >= 0

\* C35: a NodeInfo with a node object has Idle, Used, Releasing and
\* Pipelined non-negative in every dimension, whatever sequence of
\* NewNodeInfo, SetNode, AddTask, RemoveTask and UpdateTask led to it.
C35_VectorsNonNegative ==
  ni.Node # NilNode
    => /\ NonNegative(ni.Idle) /\ NonNegative(ni.Used)
       /\ NonNegative(ni.Releasing) /\ NonNegative(ni.Pipelined)


\* C36: on every node of the session FutureIdle = Idle + Releasing -
\* Pipelined is non-negative in every dimension, in every state of a
\* statement made of Evict, of Pipeline on a node whose FutureIdle covers
\* the request, of Allocate on a node whose Idle covers it, and of the
\* inverses that Discard runs.
C36_FutureIdleNonNegative ==
  (ssnOpen /\ ~fatal)
    => \A n \in DOMAIN ssnNodes :
         SsnNode(World, n).Node # NilNode => NonNegative(FutureIdle(SsnNode(World, n)))


\* The positions at which thread th holds the mutex.
HeldAt(th) ==
  CASE th = "sched" -> {"status", "node", "return"}
    [] th = "snap" -> {"nodes", "jobs"}
    [] th = "cleanup" -> {"check"}
    [] OTHER -> {"sync"}

\* C37: the mutex is held exactly by the thread that is between its Lock
\* and its return, so it is free after every return, with or without an
\* error, and no thread that holds it is at a Lock; and whoever holds it
\* has a step to take whatever the detached effector calls do, so every
\* thread waiting at a Lock can get the mutex.
C37_NoDeadlock ==
  /\ mutex \in Threads \cup {""}
  /\ \A th \in Threads : (mutex = th) <=> (pc[th] \in HeldAt(th))
  /\ (mutex # "" /\ ~fatal) => ENABLED UnderLock
  /\ (mutex = "" /\ ~fatal /\ pc["sched"] = "lock") => ENABLED SchedLock
  /\ (mutex = "" /\ ~fatal /\ pc["snap"] = "lock") => ENABLED SnapLock
  /\ (mutex = "" /\ ~fatal /\ pc["cleanup"] = "lock") => ENABLED CleanupLock
  /\ (mutex = "" /\ ~fatal /\ pc["resync"] = "lock") => ENABLED WorkerLock

\* taskUnschedulable has returned the error of UpdatePodCondition and the
\* mutex is free, while an effector call is in progress and another thread
\* is about to take the lock.
C37_Witness ==
  /\ ret.op = "taskUnschedulable" /\ ret.err # "" /\ mutex = ""
  /\ \E i \in DOMAIN inflight : inflight[i].st = "running"
  /\ \E th \in Threads : pc[th] = "lock"


\* C38: an entry is deleted from sc.Jobs only if the JobInfo stored under
\* that JobID is terminated when it is deleted.
C38_OnlyTerminatedDeleted ==
  [][\A j \in JobIDs :
       (j \in DOMAIN podGroup /\ j \notin DOMAIN podGroup') => JobTerminated(World, j)]_vars


\* The nodes of the cache that hold a copy of task t.
CacheHoldersOf(t) == {n \in DOMAIN scNodes : t \in DOMAIN scNodes[n].Tasks}

RECURSIVE CloneInOrder(_, _, _)
CloneInOrder(res, src, order) ==
  IF order = <<>> THEN res
  ELSE CloneInOrder(AddTask(res, src.Tasks[Head(order)]).ni, src, Tail(order))

\* Whether node c has the task keys of ni with the same statuses and
\* requests, and the same resource vectors.
EquivalentNodes(c, original) ==
  /\ DOMAIN c.Tasks = DOMAIN original.Tasks
  /\ \A t \in DOMAIN original.Tasks :
       /\ c.Tasks[t].Status = original.Tasks[t].Status
       /\ c.Tasks[t].Resreq = original.Tasks[t].Resreq
  /\ c.Idle = original.Idle /\ c.Used = original.Used
  /\ c.Releasing = original.Releasing /\ c.Pipelined = original.Pipelined
  /\ c.Allocatable = original.Allocatable

\* C40: the Clone of a Ready node is equivalent to the node, whatever the
\* order in which the clone adds the tasks again.
C40_CloneEquivalent ==
  ni.State.Phase = Ready
    => \A order \in Perms(DOMAIN ni.Tasks) :
         EquivalentNodes(CloneInOrder(NewNodeInfo(ni.Node), ni, order), ni)


====
